---- MODULE Spec2Model ----
(***************************************************************************)
(* Silence detection and audio trimming of obsidian-transcribe:            *)
(* src/src/trimmer/AudioTrimmer.ts and the trimming screen of              *)
(* src/src/ui/RecorderModal.ts.                                            *)
(*                                                                         *)
(* Numbers.  Times are integer milliseconds (the code holds seconds as     *)
(* doubles; resolution / 1000 seconds is `resolution` milliseconds here).  *)
(* A segment's avgDb is an integer number of dB, or NegInf for -Infinity.  *)
(* A threshold is a rational [num, den], den > 0, because the automatic    *)
(* threshold is a mean.  Arrays are sequences, so the code's index i is    *)
(* i + 1 here.                                                             *)
(***************************************************************************)
EXTENDS Integers, Sequences, FiniteSets, TLC

VARIABLES
  resolution,     \* AudioTrimmer.resolution (ms) of the trimmer under call
  waveformData,   \* the WaveformData handed to the trimmer
  config,         \* the TrimConfig handed to the trimmer
  returned,       \* the trimmer methods that have been called and have returned
  silenceResult,  \* calculateSilenceSegments(waveformData, config)
  againResult,    \* a second calculateSilenceSegments and the input it got
  marginResult,   \* applyMargin(silenceResult, config.silenceMargin)
  rangesResult,   \* calculateTrimRanges(waveformData, config)
  statsResult,    \* calculateTrimStats(silenceResult, waveformData.duration)
  thresholdResult, \* calculateAutoThreshold(waveformData)
  audioBuffer,    \* what decodeAudioData yields for the audio blob
  analyze,        \* the frame of the analyzeWaveform call in progress
  trim,           \* the frame of the trimAudio call in progress
  modal,          \* the fields of the RecorderModal
  settings,       \* the trimming fields of the PluginSettings
  lastThreshold   \* history: the threshold most recently chosen in the modal

vars == <<resolution, waveformData, config, returned, silenceResult,
          againResult, marginResult, rangesResult, statsResult, thresholdResult,
          audioBuffer, analyze, trim, modal, settings, lastThreshold>>

\* The input and the results of the synchronous trimmer methods.
trimmerResults == <<returned, silenceResult, againResult, marginResult,
                    rangesResult, statsResult, thresholdResult>>

\* The state of the asynchronous analyzeWaveform and trimAudio calls.
analysisVars == <<audioBuffer, analyze, trim>>

\* The recorder modal.
modalVars == <<modal, settings, lastThreshold>>

\* The trimmer called on its own, outside the modal.
trimmerVars == <<resolution, waveformData, config, returned, silenceResult,
                 againResult, marginResult, rangesResult, statsResult, thresholdResult,
                 analyze, trim>>

----------------------------------------------------------------------------
(* Bounds of the model.                                                    *)

MaxSegs == 6

\* Longest decoded audio given to analyzeWaveform, in samples.
MaxSamples == 5

\* Longest segment array given to calculateAutoThreshold: the lowest 20% are
\* more than one value from 10 finite values on.
MaxThresholdSegs == 11

----------------------------------------------------------------------------
(* Values.                                                                 *)

\* -Infinity, the avgDb of a window of digital silence: below every finite dB.
NegInf == -1000

\* +Infinity, the initial minDb of analyzeWaveform: above every finite dB.
PosInf == 1000

\* NaN, the avgDb of a window of no samples (0 / 0): every comparison with it
\* is false.
NaN == 999

\* `null` of silenceStartIndex; array indices are 1-based here, so 0 is free.
NoIndex == 0


Max(a, b) == IF a >= b THEN a ELSE b
Min(a, b) == IF a <= b THEN a ELSE b

\* Math.ceil(a / b) for a >= 0 and b > 0.
CeilDiv(a, b) == (a + b - 1) \div b

\* A whole number of dB as a threshold.
Rat(n) == [num |-> n, den |-> 1]

\* db <= threshold, for an avgDb (NegInf or a whole number) and a rational.
DbLeq(db, threshold) == db = NegInf \/ db * threshold.den <= threshold.num

----------------------------------------------------------------------------
(* rmsToDb and AudioTrimmer.analyzeWaveform                                *)
(*                                                                         *)
(* A sample is a whole number of 1/FullScale of full amplitude.  The dB of *)
(* a window is read off a 10 dB grid: RmsToDb gives the grid value at or   *)
(* below 20 * log10(rms).  The audio context is "none" before it is made,  *)
(* then "open", then "closed"; `closes` counts the calls of its close(),    *)
(* `decodes` the calls of decodeAudioData.  `calls` and `failed` count the *)
(* calls of the method on this trimmer that settled before, and those of   *)
(* them that threw.                                                        *)

FullScale == 1000

\* floor(log10(num / den)) for num > 0 and den > 0.
RECURSIVE Log10Floor(_, _)
Log10Floor(num, den) ==
  IF num >= 10 * den THEN 1 + Log10Floor(num, 10 * den)
  ELSE IF num < den THEN Log10Floor(10 * num, den) - 1
  ELSE 0

\* Mutant: a window at or below 4/1000 of full scale taken for silence.
RmsToDbGated(sumSquares, count) ==
  IF count = 0 THEN NaN
  ELSE IF sumSquares <= 16 * count THEN NegInf
  ELSE 10 * Log10Floor(sumSquares, count * FullScale * FullScale)

\* rmsToDb(Math.sqrt(sumSquares / count)), lines 61-64 and 112-113:
\* 20 * log10(rms) is 10 * log10(sumSquares / count).
RmsToDb(sumSquares, count) ==
  IF count = 0 THEN NaN
  ELSE IF sumSquares <= 0 THEN NegInf
  ELSE 10 * Log10Floor(sumSquares, count * FullScale * FullScale)

\* Math.floor((this.resolution / 1000) * sampleRate), line 95.
SamplesPerSegment(res, sampleRate) == (res * sampleRate) \div 1000

\* Sample index i as a time in ms: i / sampleRate seconds.
SampleTime(i, sampleRate) == (i * 1000) \div sampleRate

\* audioBuffer.duration, in ms.
BufferDuration(buffer) == SampleTime(Len(buffer.channelData), buffer.sampleRate)

\* Mutant: the end time left unclamped, (i + samplesPerSegment) / sampleRate.
SegmentEndTimeUnclamped(i, samplesPerSegment, buffer) ==
  SampleTime(i + samplesPerSegment, buffer.sampleRate)

\* Line 104: Math.min((i + samplesPerSegment) / sampleRate, duration).
SegmentEndTime(i, samplesPerSegment, buffer) ==
  Min(SampleTime(i + samplesPerSegment, buffer.sampleRate),
      BufferDuration(buffer))

\* Lines 107-111: the sum of channelData[j]^2 for i <= j < end (0-based).
RECURSIVE SumSquares(_, _, _)
SumSquares(channelData, i, end) ==
  IF i >= end THEN 0
  ELSE channelData[i + 1] * channelData[i + 1]
         + SumSquares(channelData, i + 1, end)

\* The frame of analyzeWaveform before the call.
NoAnalysis ==
  [pc |-> "idle", context |-> "none", closes |-> 0, decodes |-> 0, i |-> 0,
   segments |-> <<>>, maxDb |-> NegInf, minDb |-> PosInf, outcome |-> "none",
   calls |-> 0, failed |-> 0]

\* One iteration of the loop of lines 102-124.
AnalyzeIterationBody(frame, res, buffer) ==
  LET samplesPerSegment == SamplesPerSegment(res, buffer.sampleRate)
      i == frame.i
      startTime == SampleTime(i, buffer.sampleRate)
      endTime == SegmentEndTime(i, samplesPerSegment, buffer)
      end == Min(i + samplesPerSegment, Len(buffer.channelData))
      avgDb == RmsToDb(SumSquares(buffer.channelData, i, end), end - i)
  IN [frame EXCEPT
        !.maxDb = IF avgDb # NaN /\ avgDb > frame.maxDb THEN avgDb ELSE @,
        !.minDb = IF avgDb # NaN /\ avgDb < frame.minDb /\ avgDb # NegInf
                    THEN avgDb ELSE @,
        !.segments = Append(@, [startTime |-> startTime, endTime |-> endTime,
                                isSilence |-> FALSE, avgDb |-> avgDb]),
        !.i = i + samplesPerSegment]

\* Mutant: the fallbacks of lines 127-128 left out.
AnalyzeResultNoFallback(frame, res, buffer) ==
  [segments |-> frame.segments,
   duration |-> BufferDuration(buffer),
   maxDb |-> frame.maxDb,
   minDb |-> frame.minDb,
   resolution |-> res]

\* Lines 126-136: the WaveformData returned from a finished loop.
AnalyzeResult(frame, res, buffer) ==
  [segments |-> frame.segments,
   duration |-> BufferDuration(buffer),
   maxDb |-> IF frame.maxDb = NegInf THEN 0 ELSE frame.maxDb,
   minDb |-> IF frame.minDb = PosInf THEN -60 ELSE frame.minDb,
   resolution |-> res]

\* Line 88: const audioContext = new AudioContext(), then the try block.
AnalyzeCall ==
  /\ analyze.pc = "idle"
  /\ analyze' = [analyze EXCEPT !.pc = "decode", !.context = "open"]
  /\ UNCHANGED <<resolution, waveformData, config, trimmerResults, audioBuffer,
                 trim, modalVars>>

\* Mutant: a rejected decodeAudioData tried a second time.
AnalyzeDecodeRetry ==
  /\ analyze.pc = "decode"
  /\ analyze' = IF audioBuffer.decodable
                  THEN [analyze EXCEPT !.pc = "loop", !.decodes = @ + 1]
                  ELSE IF analyze.decodes = 0
                    THEN [analyze EXCEPT !.decodes = @ + 1]
                    ELSE [analyze EXCEPT !.pc = "finally", !.outcome = "throw",
                                         !.decodes = @ + 1]
  /\ UNCHANGED <<resolution, waveformData, config, trimmerResults, audioBuffer,
                 trim, modalVars>>

\* Lines 91-100: decodeAudioData resolves, or rejects and the call goes to
\* its finally block.
AnalyzeDecode ==
  /\ analyze.pc = "decode"
  /\ analyze' = IF audioBuffer.decodable
                  THEN [analyze EXCEPT !.pc = "loop", !.decodes = @ + 1]
                  ELSE [analyze EXCEPT !.pc = "finally", !.outcome = "throw",
                                       !.decodes = @ + 1]
  /\ UNCHANGED <<resolution, waveformData, config, trimmerResults, audioBuffer,
                 trim, modalVars>>

\* Lines 102-124: one pass of the loop body.  (With a window of no samples
\* i never advances; the model stops such a loop one segment past the
\* number of samples.)
AnalyzeIteration ==
  /\ analyze.pc = "loop"
  /\ analyze.i < Len(audioBuffer.channelData)
  /\ Len(analyze.segments) <= Len(audioBuffer.channelData)
  /\ analyze' = AnalyzeIterationBody(analyze, resolution, audioBuffer)
  /\ UNCHANGED <<resolution, waveformData, config, trimmerResults, audioBuffer,
                 trim, modalVars>>

\* Line 102 false, lines 126-136: the loop ends and the result is built.
AnalyzeLoopEnd ==
  /\ analyze.pc = "loop"
  /\ analyze.i >= Len(audioBuffer.channelData)
  /\ analyze' = [analyze EXCEPT !.pc = "finally", !.outcome = "return"]
  /\ UNCHANGED <<resolution, waveformData, config, trimmerResults, audioBuffer,
                 trim, modalVars>>

\* Lines 137-139: finally { await audioContext.close() }, then the call
\* settles: it returns the WaveformData or rethrows.
AnalyzeFinally ==
  /\ analyze.pc = "finally"
  /\ analyze' = [analyze EXCEPT
                   !.pc = IF analyze.outcome = "return" THEN "returned"
                          ELSE "thrown",
                   !.context = "closed",
                   !.closes = @ + 1]
  /\ waveformData' = IF analyze.outcome = "return"
                       THEN AnalyzeResult(analyze, resolution, audioBuffer)
                       ELSE waveformData
  /\ UNCHANGED <<resolution, config, trimmerResults, audioBuffer, trim,
                 modalVars>>

----------------------------------------------------------------------------
(* AudioTrimmer.calculateAutoThreshold                                     *)

\* .map(s => s.avgDb).filter(db => db !== -Infinity), lines 147-149.
RECURSIVE FiniteDbValues(_)
FiniteDbValues(segments) ==
  IF segments = <<>> THEN <<>>
  ELSE IF Head(segments).avgDb # NegInf
    THEN <<Head(segments).avgDb>> \o FiniteDbValues(Tail(segments))
    ELSE FiniteDbValues(Tail(segments))

\* x put into the ascending sequence `sorted`.
RECURSIVE InsertAsc(_, _)
InsertAsc(x, sorted) ==
  IF sorted = <<>> THEN <<x>>
  ELSE IF x <= Head(sorted) THEN <<x>> \o sorted
  ELSE <<Head(sorted)>> \o InsertAsc(x, Tail(sorted))

\* .sort((a, b) => a - b), line 150: ascending numeric order.
RECURSIVE SortAscending(_)
SortAscending(values) ==
  IF values = <<>> THEN <<>>
  ELSE InsertAsc(Head(values), SortAscending(Tail(values)))

\* .reduce((a, b) => a + b, 0), line 158.
RECURSIVE Sum(_)
Sum(values) == IF values = <<>> THEN 0 ELSE Head(values) + Sum(Tail(values))

\* Mutant: Math.ceil in place of Math.floor at line 157.
LowerCountCeil(n) == Max(1, (n + 4) \div 5)

\* Math.max(1, Math.floor(dbValues.length * 0.2)), line 157.
LowerCount(n) == Max(1, n \div 5)

\* Mutant: the lower clamp forgotten, Math.min(-20, threshold) alone.
ClampThresholdNoFloor(t) ==
  IF t.num > -20 * t.den THEN Rat(-20) ELSE t

\* Math.max(-60, Math.min(-20, threshold)), line 165, for a rational.
ClampThreshold(t) ==
  IF t.num > -20 * t.den THEN Rat(-20)
  ELSE IF t.num < -60 * t.den THEN Rat(-60)
  ELSE t

calculateAutoThreshold(w) ==
  LET dbValues == SortAscending(FiniteDbValues(w.segments)) IN
  IF Len(dbValues) = 0 THEN Rat(-40)
  ELSE
    LET lowerCount == LowerCount(Len(dbValues))
        lowerSum == Sum(SubSeq(dbValues, 1, lowerCount))
        \* lowerAvg + 6 = (lowerSum + 6 * lowerCount) / lowerCount
        threshold == [num |-> lowerSum + 6 * lowerCount, den |-> lowerCount]
    IN ClampThreshold(threshold)

----------------------------------------------------------------------------
(* AudioTrimmer.calculateSilenceSegments                                   *)

\* The array after `segments[j].isSilence = false` for every j in J.  (The
\* concatenation with <<>> changes nothing: it makes TLC hold the array as a
\* computed value instead of re-evaluating the writes at every later read.)
ClearSilence(segments, J) ==
  [j \in 1..Len(segments) |->
     IF j \in J THEN [segments[j] EXCEPT !.isSilence = FALSE]
     ELSE segments[j]] \o <<>>

\* Lines 197-199: segments[j].isSilence = false for silenceStartIndex <= j < i.
ClearRun(segments, from, to) == ClearSilence(segments, from..(to - 1))

\* Mutant: the run test written `<=`, so a run of exactly minSilenceSegments
\* segments is reverted too.
RECURSIVE SilenceLoopTieReverted(_, _, _, _)
SilenceLoopTieReverted(segments, i, silenceStartIndex, minSilenceSegments) ==
  IF i > Len(segments) + 1 THEN segments
  ELSE
    LET isSilence == i <= Len(segments) /\ segments[i].isSilence IN
    IF isSilence /\ silenceStartIndex = NoIndex
      THEN SilenceLoopTieReverted(segments, i + 1, i, minSilenceSegments)
    ELSE IF ~isSilence /\ silenceStartIndex # NoIndex
      THEN LET silenceLength == i - silenceStartIndex IN
           SilenceLoopTieReverted(
             IF silenceLength <= minSilenceSegments
               THEN ClearRun(segments, silenceStartIndex, i)
               ELSE segments,
             i + 1, NoIndex, minSilenceSegments)
    ELSE SilenceLoopTieReverted(segments, i + 1, silenceStartIndex,
                                minSilenceSegments)

\* Mutant: the loop written `i < segments.length`, so the run that ends at
\* the last segment is never measured.
RECURSIVE SilenceLoopNoFlush(_, _, _, _)
SilenceLoopNoFlush(segments, i, silenceStartIndex, minSilenceSegments) ==
  IF i > Len(segments) THEN segments
  ELSE
    LET isSilence == segments[i].isSilence IN
    IF isSilence /\ silenceStartIndex = NoIndex
      THEN SilenceLoopNoFlush(segments, i + 1, i, minSilenceSegments)
    ELSE IF ~isSilence /\ silenceStartIndex # NoIndex
      THEN LET silenceLength == i - silenceStartIndex IN
           SilenceLoopNoFlush(
             IF silenceLength < minSilenceSegments
               THEN ClearRun(segments, silenceStartIndex, i)
               ELSE segments,
             i + 1, NoIndex, minSilenceSegments)
    ELSE SilenceLoopNoFlush(segments, i + 1, silenceStartIndex,
                            minSilenceSegments)

\* The loop of lines 188-203, from iteration i on (i runs to Len + 1).
RECURSIVE SilenceLoop(_, _, _, _)
SilenceLoop(segments, i, silenceStartIndex, minSilenceSegments) ==
  IF i > Len(segments) + 1 THEN segments
  ELSE
    LET isSilence == i <= Len(segments) /\ segments[i].isSilence IN
    IF isSilence /\ silenceStartIndex = NoIndex
      THEN SilenceLoop(segments, i + 1, i, minSilenceSegments)
    ELSE IF ~isSilence /\ silenceStartIndex # NoIndex
      THEN LET silenceLength == i - silenceStartIndex IN
           SilenceLoop(IF silenceLength < minSilenceSegments
                         THEN ClearRun(segments, silenceStartIndex, i)
                         ELSE segments,
                       i + 1, NoIndex, minSilenceSegments)
    ELSE SilenceLoop(segments, i + 1, silenceStartIndex, minSilenceSegments)

\* Mutant: a segment that comes in marked silence stays marked.
RawSilenceSticky(s, thresholdDb) ==
  s.isSilence \/ DbLeq(s.avgDb, thresholdDb) \/ s.avgDb = NegInf

\* Line 182: the raw label of one segment.
RawSilence(s, thresholdDb) == DbLeq(s.avgDb, thresholdDb) \/ s.avgDb = NegInf

calculateSilenceSegments(res, w, c) ==
  LET segmentDuration == res
      minSilenceSegments == CeilDiv(c.minSilenceDuration, segmentDuration)
      segments == [j \in 1..Len(w.segments) |->
                     [w.segments[j] EXCEPT
                        !.isSilence = RawSilence(w.segments[j], c.thresholdDb)]]
  IN SilenceLoop(segments, 1, NoIndex, minSilenceSegments)

----------------------------------------------------------------------------
(* AudioTrimmer.applyMargin                                                *)

\* Mutant: the look-forward loop written `j < min(length, i + m)`, one
\* segment short.
MarginWindowShortForward(i, marginSegments, length) ==
  {j \in Max(1, i - marginSegments)..(i - 1) : TRUE}
    \cup {j \in (i + 1)..(Min(length + 1, i + marginSegments) - 1) : TRUE}

\* The indices written for speech segment i by the two loops of lines
\* 223-228: max(0, i - m) <= j < i, and i + 1 <= j < min(length, i + m + 1).
MarginWindow(i, marginSegments, length) ==
  {j \in Max(1, i - marginSegments)..(i - 1) : TRUE}
    \cup {j \in (i + 1)..(Min(length + 1, i + marginSegments + 1) - 1) : TRUE}

\* Mutant: the two loops leave the window at the first segment that is
\* already non-silence in result.
ClearAroundUntilSpeech(result, i, marginSegments) ==
  LET window == MarginWindow(i, marginSegments, Len(result))
      open(j) == \A k \in window : (k < j /\ (k < i <=> j < i)) => result[k].isSilence
  IN ClearSilence(result, {j \in window : open(j)})

\* Lines 223-228 for one speech segment i: result[j].isSilence = false.
ClearAround(result, i, marginSegments) ==
  ClearSilence(result, MarginWindow(i, marginSegments, Len(result)))

\* Mutant: line 221 reads result[i] instead of segments[i], so a segment
\* un-marked earlier in the pass acts as speech.
RECURSIVE MarginLoopCompounding(_, _, _, _)
MarginLoopCompounding(segments, result, i, marginSegments) ==
  IF i > Len(segments) THEN result
  ELSE MarginLoopCompounding(segments,
                             IF ~result[i].isSilence
                               THEN ClearAround(result, i, marginSegments)
                               ELSE result,
                             i + 1, marginSegments)

\* The loop of lines 220-230, from iteration i on: reads segments, writes result.
RECURSIVE MarginLoop(_, _, _, _)
MarginLoop(segments, result, i, marginSegments) ==
  IF i > Len(segments) THEN result
  ELSE MarginLoop(segments,
                  IF ~segments[i].isSilence
                    THEN ClearAround(result, i, marginSegments)
                    ELSE result,
                  i + 1, marginSegments)

applyMargin(res, segments, marginSeconds) ==
  LET segmentDuration == res
      marginSegments == CeilDiv(marginSeconds, segmentDuration)
  IN MarginLoop(segments, segments, 1, marginSegments)

----------------------------------------------------------------------------
(* AudioTrimmer.calculateTrimRanges                                        *)

\* Mutant: the classifier's output returned without the margin pass.
calculateTrimRangesNoMargin(res, w, c) == calculateSilenceSegments(res, w, c)

\* Mutant: the margin pass run on the threshold marking of lines 180-183,
\* without the pass that un-marks short runs.
calculateTrimRangesOfRawMarking(res, w, c) ==
  applyMargin(res,
              [j \in 1..Len(w.segments) |->
                 [w.segments[j] EXCEPT
                    !.isSilence = RawSilence(w.segments[j], c.thresholdDb)]],
              c.silenceMargin)

calculateTrimRanges(res, w, c) ==
  LET silenceSegments == calculateSilenceSegments(res, w, c)
  IN applyMargin(res, silenceSegments, c.silenceMargin)

----------------------------------------------------------------------------
(* AudioTrimmer.calculateTrimStats                                         *)

\* Mutant: every silence segment counted, the inSilence flag ignored.
RECURSIVE StatsLoopPerSegment(_, _, _)
StatsLoopPerSegment(segments, i, acc) ==
  IF i > Len(segments) THEN acc
  ELSE
    LET segment == segments[i]
        a1 == IF ~segment.isSilence
                THEN [acc EXCEPT !.trimmedDuration =
                        @ + (segment.endTime - segment.startTime)]
                ELSE [acc EXCEPT !.removedSegmentsCount = @ + 1]
    IN StatsLoopPerSegment(segments, i + 1, a1)

\* The loop of lines 257-268 from segment i on; acc holds trimmedDuration,
\* removedSegmentsCount and inSilence.
RECURSIVE StatsLoop(_, _, _)
StatsLoop(segments, i, acc) ==
  IF i > Len(segments) THEN acc
  ELSE
    LET segment == segments[i]
        a1 == IF ~segment.isSilence
                THEN [acc EXCEPT !.trimmedDuration =
                        @ + (segment.endTime - segment.startTime)]
                ELSE acc
        a2 == IF segment.isSilence /\ ~a1.inSilence
                THEN [a1 EXCEPT !.removedSegmentsCount = @ + 1,
                                !.inSilence = TRUE]
              ELSE IF ~segment.isSilence
                THEN [a1 EXCEPT !.inSilence = FALSE]
              ELSE a1
    IN StatsLoop(segments, i + 1, a2)

\* Mutant: the percentage left a fraction, removedDuration / originalDuration.
calculateTrimStatsFraction(segments, originalDuration) ==
  LET acc == StatsLoop(segments, 1,
                       [trimmedDuration |-> 0, removedSegmentsCount |-> 0,
                        inSilence |-> FALSE])
      removedDuration == originalDuration - acc.trimmedDuration
  IN [trimmedDuration |-> acc.trimmedDuration,
      removedDuration |-> removedDuration,
      removedPercentage |->
        IF originalDuration > 0
          THEN [num |-> removedDuration, den |-> originalDuration]
          ELSE Rat(0),
      removedSegments |-> acc.removedSegmentsCount]

\* removedPercentage is the rational 100 * removedDuration / originalDuration,
\* kept as [num, den]; 0 when originalDuration is not positive.
calculateTrimStats(segments, originalDuration) ==
  LET acc == StatsLoop(segments, 1,
                       [trimmedDuration |-> 0, removedSegmentsCount |-> 0,
                        inSilence |-> FALSE])
      removedDuration == originalDuration - acc.trimmedDuration
      removedPercentage ==
        IF originalDuration > 0
          THEN [num |-> removedDuration * 100, den |-> originalDuration]
          ELSE Rat(0)
  IN [trimmedDuration |-> acc.trimmedDuration,
      removedDuration |-> removedDuration,
      removedPercentage |-> removedPercentage,
      removedSegments |-> acc.removedSegmentsCount]

----------------------------------------------------------------------------
(* AudioTrimmer.trimAudio                                                  *)
(*                                                                         *)
(* A kept range is [start, end] in ms; `currentRange` is <<>> for null and *)
(* <<range>> otherwise.  A decoded buffer holds one array per channel in   *)
(* `channels` (channelData is channels[1]); `renderable` is FALSE when     *)
(* createBuffer or the MP3 encoder throws for it.                          *)
(*                                                                         *)
(* Times are doubles in the source.  A segment boundary is b / sampleRate  *)
(* for a sample index b, and trimAudio multiplies it by sampleRate again:  *)
(* in doubles the product is b, or just below b, or just above b, and      *)
(* Math.floor and Math.ceil then differ by a whole sample.  Likewise the   *)
(* sum of the kept durations times sampleRate may come out just above the  *)
(* whole number of kept samples.  Which products are inexact depends on    *)
(* the rate and the boundary; `inexact` of a buffer names them:            *)
(* inexact.boundary is the sample index whose product is off (0 for none), *)
(* inexact.direction is -1 (below) or 1 (above), inexact.duration is TRUE  *)
(* when the product of line 333 is above the whole number.                 *)

\* Mutant: a silence segment does not end the current range, and the next
\* non-silence segment extends it.
RECURSIVE KeepRangesLoopBridging(_, _, _, _)
KeepRangesLoopBridging(segments, i, keepRanges, currentRange) ==
  IF i > Len(segments) THEN [keepRanges |-> keepRanges, currentRange |-> currentRange]
  ELSE
    LET segment == segments[i] IN
    IF ~segment.isSilence
      THEN IF currentRange # <<>>
             THEN KeepRangesLoopBridging(segments, i + 1, keepRanges,
                    <<[currentRange[1] EXCEPT !.end = segment.endTime]>>)
             ELSE KeepRangesLoopBridging(segments, i + 1, keepRanges,
                    <<[start |-> segment.startTime, end |-> segment.endTime]>>)
      ELSE KeepRangesLoopBridging(segments, i + 1, keepRanges, currentRange)

\* The loop of lines 301-317 from segment i on.
RECURSIVE KeepRangesLoop(_, _, _, _)
KeepRangesLoop(segments, i, keepRanges, currentRange) ==
  IF i > Len(segments) THEN [keepRanges |-> keepRanges, currentRange |-> currentRange]
  ELSE
    LET segment == segments[i] IN
    IF ~segment.isSilence
      THEN IF currentRange # <<>> /\ currentRange[1].end >= segment.startTime - 1
             THEN KeepRangesLoop(segments, i + 1, keepRanges,
                                 <<[currentRange[1] EXCEPT !.end = segment.endTime]>>)
             ELSE KeepRangesLoop(segments, i + 1,
                                 IF currentRange # <<>>
                                   THEN keepRanges \o currentRange
                                   ELSE keepRanges,
                                 <<[start |-> segment.startTime,
                                    end |-> segment.endTime]>>)
      ELSE KeepRangesLoop(segments, i + 1,
                          IF currentRange # <<>> THEN keepRanges \o currentRange
                                                ELSE keepRanges,
                          <<>>)

\* Lines 297-320: the kept ranges of a segment array.
KeepRanges(segments) ==
  LET end == KeepRangesLoop(segments, 1, <<>>, <<>>)
  IN end.keepRanges \o end.currentRange

\* Lines 323-326: the reduce over the kept ranges.
RECURSIVE TrimmedDuration(_)
TrimmedDuration(keepRanges) ==
  IF keepRanges = <<>> THEN 0
  ELSE (Head(keepRanges).end - Head(keepRanges).start)
         + TrimmedDuration(Tail(keepRanges))

\* Mutant: the new buffer given the length of the source.
TrimmedLengthOfSource(keepRanges, buffer) == Len(buffer.channelData)

\* All products exact.
Exact == [boundary |-> 0, direction |-> 0, duration |-> FALSE]

\* time * sampleRate in doubles, for a time in ms: -1 when the product is
\* just below the whole number time * sampleRate / 1000, 1 when it is just
\* above, 0 when it is exact or the exact product is not whole.
ProductError(time, buffer) ==
  IF /\ (time * buffer.sampleRate) % 1000 = 0
     /\ (time * buffer.sampleRate) \div 1000 = buffer.inexact.boundary
    THEN buffer.inexact.direction
    ELSE 0

\* Line 333: Math.ceil(trimmedDuration * sampleRate).
TrimmedLength(keepRanges, buffer) ==
  LET product == TrimmedDuration(keepRanges) * buffer.sampleRate
  IN CeilDiv(product, 1000)
       + (IF product > 0 /\ product % 1000 = 0 /\ buffer.inexact.duration
            THEN 1 ELSE 0)

\* Lines 340-345 for one range: startSample, endSample and length.
RangeStartSample(range, buffer) ==
  (range.start * buffer.sampleRate) \div 1000
    - (IF ProductError(range.start, buffer) < 0 THEN 1 ELSE 0)
RangeEndSample(range, buffer) ==
  Min(CeilDiv(range.end * buffer.sampleRate, 1000)
        + (IF ProductError(range.end, buffer) > 0 THEN 1 ELSE 0),
      Len(buffer.channelData))
RangeLength(range, buffer) ==
  RangeEndSample(range, buffer) - RangeStartSample(range, buffer)

\* Lines 338-356 for one channel, from range k on: destData after the copy.
RECURSIVE CopyRanges(_, _, _, _, _, _)
CopyRanges(sourceData, destData, keepRanges, k, writeOffset, buffer) ==
  IF k > Len(keepRanges) THEN destData
  ELSE
    LET startSample == RangeStartSample(keepRanges[k], buffer)
        length == RangeLength(keepRanges[k], buffer)
        written == {i \in 0..(length - 1) : writeOffset + i < Len(destData)}
        copied == [d \in 1..Len(destData) |->
                     IF (d - 1 - writeOffset) \in written
                       THEN sourceData[startSample + (d - 1 - writeOffset) + 1]
                       ELSE destData[d]] \o <<>>
    IN CopyRanges(sourceData, copied, keepRanges, k + 1, writeOffset + length,
                  buffer)

\* Lines 330-357: createBuffer (zero-filled) and the copy into every channel.
TrimmedBuffer(keepRanges, buffer) ==
  LET length == TrimmedLength(keepRanges, buffer)
      silent == [d \in 1..length |-> 0]
  IN [sampleRate |-> buffer.sampleRate,
      numberOfChannels |-> Len(buffer.channels),
      length |-> length,
      channels |-> [c \in 1..Len(buffer.channels) |->
                      CopyRanges(buffer.channels[c], silent, keepRanges, 1, 0,
                                 buffer)]]

\* Mutant: the durations of the result measured on the rendered buffer.
TrimResultOfRendered(segments, buffer) ==
  LET stats == calculateTrimStats(segments, BufferDuration(buffer))
      rendered == TrimmedBuffer(KeepRanges(segments), buffer)
      trimmedDuration == (rendered.length * 1000) \div buffer.sampleRate
  IN [originalDuration |-> BufferDuration(buffer),
      trimmedDuration |-> trimmedDuration,
      removedDuration |-> BufferDuration(buffer) - trimmedDuration,
      removedPercentage |-> stats.removedPercentage,
      removedSegments |-> stats.removedSegments,
      trimmedBlob |-> rendered]

\* Lines 361-370: the TrimResult; the blob is the encoding of the buffer.
TrimResult(segments, buffer) ==
  LET stats == calculateTrimStats(segments, BufferDuration(buffer))
  IN [originalDuration |-> BufferDuration(buffer),
      trimmedDuration |-> stats.trimmedDuration,
      removedDuration |-> stats.removedDuration,
      removedPercentage |-> stats.removedPercentage,
      removedSegments |-> stats.removedSegments,
      trimmedBlob |-> TrimmedBuffer(KeepRanges(segments), buffer)]

\* The frame of trimAudio before the call; result is <<>> or <<TrimResult>>.
NoTrim ==
  [pc |-> "idle", context |-> "none", closes |-> 0, decodes |-> 0,
   segments |-> <<>>, outcome |-> "none", result |-> <<>>,
   calls |-> 0, failed |-> 0]

\* Line 291: const audioContext = new AudioContext(), then the try block.
TrimCall ==
  /\ trim.pc = "idle"
  /\ trim' = [trim EXCEPT !.pc = "decode", !.context = "open"]
  /\ UNCHANGED <<resolution, waveformData, config, trimmerResults, audioBuffer,
                 analyze, modalVars>>

\* Lines 294-295: decodeAudioData resolves, or rejects and the call goes to
\* its finally block.
TrimDecode ==
  /\ trim.pc = "decode"
  /\ trim' = IF audioBuffer.decodable
               THEN [trim EXCEPT !.pc = "render", !.decodes = @ + 1]
               ELSE [trim EXCEPT !.pc = "finally", !.outcome = "throw",
                                 !.decodes = @ + 1]
  /\ UNCHANGED <<resolution, waveformData, config, trimmerResults, audioBuffer,
                 analyze, modalVars>>

\* Lines 297-370: the kept ranges, the new buffer, the copy, the encoding
\* and the statistics, with no await between them; createBuffer or the
\* encoder may throw.
TrimRender ==
  /\ trim.pc = "render"
  /\ trim' = IF audioBuffer.renderable
               THEN [trim EXCEPT !.pc = "finally", !.outcome = "return",
                                 !.result = <<TrimResult(trim.segments, audioBuffer)>>]
               ELSE [trim EXCEPT !.pc = "finally", !.outcome = "throw"]
  /\ UNCHANGED <<resolution, waveformData, config, trimmerResults, audioBuffer,
                 analyze, modalVars>>

\* Mutant: close() called at the end of the try block instead of in a
\* finally block, so a call that throws leaves the context open.
TrimFinallyOnReturnOnly ==
  /\ trim.pc = "finally"
  /\ trim' = IF trim.outcome = "return"
               THEN [trim EXCEPT !.pc = "returned", !.context = "closed",
                                 !.closes = @ + 1]
               ELSE [trim EXCEPT !.pc = "thrown"]
  /\ UNCHANGED <<resolution, waveformData, config, trimmerResults, audioBuffer,
                 analyze, modalVars>>

\* Lines 371-373: finally { await audioContext.close() }, then the call
\* settles.
TrimFinally ==
  /\ trim.pc = "finally"
  /\ trim' = [trim EXCEPT
                !.pc = IF trim.outcome = "return" THEN "returned" ELSE "thrown",
                !.context = "closed",
                !.closes = @ + 1]
  /\ UNCHANGED <<resolution, waveformData, config, trimmerResults, audioBuffer,
                 analyze, modalVars>>

----------------------------------------------------------------------------
(* AudioTrimmer.analyzeWaveform as the modal awaits it: the whole call.    *)

\* The loop of lines 102-124 run to its end (for a window of >= 1 sample).
RECURSIVE AnalyzeLoop(_, _, _)
AnalyzeLoop(frame, res, buffer) ==
  IF frame.i < Len(buffer.channelData)
    THEN AnalyzeLoop(AnalyzeIterationBody(frame, res, buffer), res, buffer)
    ELSE frame

analyzeWaveform(res, buffer) ==
  AnalyzeResult(AnalyzeLoop(NoAnalysis, res, buffer), res, buffer)

----------------------------------------------------------------------------
(* RecorderModal: the recording buttons and the trimming screen.           *)
(*                                                                         *)
(* A field that may be null holds <<>> for null and <<v>> for the value v. *)
(* modal.buttons is the state the buttons were last built for              *)
(* (updateButtons); modal.trimmingVisible is the trimming container shown; *)
(* modal.awaiting names the promise a handler of the modal is suspended    *)
(* on, modal.trimArg the segment array handed to a trimAudio in flight,    *)
(* modal.blobToSend the blob sendRecording chose.  modal.trimmedBlob holds *)
(* <<"trimmed">> once trimAudio has delivered a blob.                      *)
(* modal.pressed is the sending button pressed last; of that press,        *)
(* modal.trimAudio is how its trimAudio settled, and modal.saveAudio and   *)
(* modal.transcribe are the blobs those calls were given.                  *)
(* recorder.start, recorder.stop and the wake lock calls settle within the *)
(* handler's step.                                                         *)

\* new AudioTrimmer(200), line 470.
ModalResolution == 200

\* The TrimConfig of updateTrimming, lines 502-506.
ModalConfig(m, st) ==
  [thresholdDb |-> m.currentThresholdDb,
   minSilenceDuration |-> st.minSilenceDuration,
   silenceMargin |-> st.silenceMargin]

\* Mutant: the margin pass run again over the array derived before, instead
\* of a new derivation from the WaveformData.
updateTrimmingFromPrevious(m, st) ==
  IF m.trimmer = <<>> \/ m.waveformData = <<>> THEN m
  ELSE [m EXCEPT !.trimmedSegments =
          IF m.trimmedSegments = <<>>
            THEN <<calculateTrimRanges(m.trimmer[1], m.waveformData[1],
                                       ModalConfig(m, st))>>
            ELSE <<applyMargin(m.trimmer[1], m.trimmedSegments[1],
                               st.silenceMargin)>>]

\* Mutant: the recalculation written into the array this.trimmedSegments
\* already refers to, which a trimAudio in flight was given.
updateTrimmingInPlace(m, st) ==
  IF m.trimmer = <<>> \/ m.waveformData = <<>> THEN m
  ELSE LET segments == <<calculateTrimRanges(m.trimmer[1], m.waveformData[1],
                                             ModalConfig(m, st))>>
       IN [m EXCEPT !.trimmedSegments = segments,
                    !.trimArg = IF m.trimArg = <<>> THEN <<>> ELSE segments]

\* updateTrimming, lines 499-515 (drawWaveform and updateTrimResult only
\* display modal.trimmedSegments).
updateTrimming(m, st) ==
  IF m.trimmer = <<>> \/ m.waveformData = <<>> THEN m
  ELSE [m EXCEPT !.trimmedSegments =
          <<calculateTrimRanges(m.trimmer[1], m.waveformData[1],
                                ModalConfig(m, st))>>]

\* updateButtons, lines 739-769.
updateButtons(m) == [m EXCEPT !.buttons = m.state]

\* startTrimming up to its await, lines 461-474.
startTrimmingCall(m, st) ==
  IF ~m.audioBlob THEN m
  ELSE [updateButtons([m EXCEPT !.state = "analyzing"]) EXCEPT
          !.trimmingVisible = TRUE,
          !.trimmer = <<ModalResolution>>,
          !.currentThresholdDb = Rat(st.defaultThresholdDb),
          !.awaiting = "analyzeWaveform"]

\* The modal after its constructor, lines 68-101: a new modal, a modal given
\* a stored audio file to send again, or a modal given a running recorder.
ModalConstructed(how, d) ==
  [state |-> IF how = "recording" THEN "recording"
             ELSE IF how = "paused" THEN "paused" ELSE "ready",
   buttons |-> "none",
   opened |-> FALSE,
   recorder |-> how \in {"recording", "paused"},
   audioBlob |-> how = "existingAudio",
   existingAudioPath |-> how = "existingAudio",
   duration |-> IF how \in {"recording", "paused"} THEN d ELSE 0,
   trimmer |-> <<>>,
   waveformData |-> <<>>,
   trimmedSegments |-> <<>>,
   currentThresholdDb |-> Rat(-40),
   trimmedBlob |-> <<>>,
   trimmingVisible |-> FALSE,
   closed |-> FALSE,
   awaiting |-> "none",
   trimArg |-> <<>>,
   blobToSend |-> "none",
   pressed |-> "none",
   trimAudio |-> "none",
   saveAudio |-> "none",
   transcribe |-> "none"]

\* The modal is on screen: its buttons and its slider take input.
Interactive == modal.opened /\ ~modal.closed

\* onOpen, lines 103-205.
OnOpen ==
  /\ ~modal.opened /\ ~modal.closed
  /\ LET m1 == updateButtons([modal EXCEPT !.opened = TRUE,
                                           !.trimmingVisible = FALSE])
     IN modal' =
          IF m1.audioBlob /\ m1.existingAudioPath
            THEN IF settings.enableTrimming
                   THEN startTrimmingCall(m1, settings)
                   ELSE updateButtons([m1 EXCEPT !.state = "stopped"])
            ELSE m1
  /\ UNCHANGED <<trimmerVars, audioBuffer, settings, lastThreshold>>

\* startRecording, lines 268-315: recorder.start() resolves or rejects.
StartRecording ==
  /\ Interactive /\ modal.buttons = "ready"
  /\ \E started \in BOOLEAN :
       modal' = IF started
                  THEN updateButtons([modal EXCEPT !.recorder = TRUE,
                                                   !.state = "recording"])
                  ELSE [modal EXCEPT !.recorder = TRUE]
  /\ UNCHANGED <<trimmerVars, audioBuffer, settings, lastThreshold>>

\* pauseRecording, lines 320-327.
PauseRecording ==
  /\ Interactive /\ modal.buttons = "recording"
  /\ modal.recorder
  /\ modal' = updateButtons([modal EXCEPT !.state = "paused"])
  /\ UNCHANGED <<trimmerVars, audioBuffer, settings, lastThreshold>>

\* resumeRecording, lines 332-339.
ResumeRecording ==
  /\ Interactive /\ modal.buttons = "paused"
  /\ modal.recorder
  /\ modal' = updateButtons([modal EXCEPT !.state = "recording"])
  /\ UNCHANGED <<trimmerVars, audioBuffer, settings, lastThreshold>>

\* The sample values of the audio, in thousandths of full scale.
SampleValues == {0, 4, 100}

\* The audio a blob of the modal holds: up to MaxModalSamples samples at
\* ModalSampleRate (a window of the modal's trimmer is then one sample), or
\* data decodeAudioData rejects.
MaxModalSamples == 2
ModalSampleRate == 5
ModalAudio ==
  { [decodable |-> TRUE, sampleRate |-> ModalSampleRate, channelData |-> data] :
      data \in UNION { [1..n -> SampleValues] : n \in 0..MaxModalSamples } }
  \cup { [decodable |-> FALSE, sampleRate |-> ModalSampleRate,
          channelData |-> <<>>] }

\* The recording lengths the recorder reports, in seconds.
Durations == {20, 30}

\* stopRecording, lines 344-362: the recorder reports the recorded length d
\* and hands over the blob; then the trimming screen or state 'stopped'.
StopRecording ==
  /\ Interactive /\ modal.buttons \in {"recording", "paused"}
  /\ modal.recorder
  /\ \E d \in Durations :
       LET m1 == [modal EXCEPT !.duration = d, !.audioBlob = TRUE] IN
       modal' =
         IF settings.enableTrimming /\ m1.duration > settings.autoSkipDuration
           THEN startTrimmingCall(m1, settings)
           ELSE updateButtons([m1 EXCEPT !.state = "stopped"])
  /\ audioBuffer' \in ModalAudio
  /\ UNCHANGED <<trimmerVars, settings, lastThreshold>>

\* cancelRecording, lines 367-381.
CancelRecording ==
  /\ Interactive /\ modal.buttons = "stopped"
  /\ modal' = updateButtons([modal EXCEPT !.recorder = FALSE,
                                           !.audioBlob = FALSE,
                                           !.state = "ready",
                                           !.duration = 0])
  /\ UNCHANGED <<trimmerVars, audioBuffer, settings, lastThreshold>>

\* startTrimming from its await on, lines 474-493: analyzeWaveform resolves
\* and the automatic threshold is applied, or it rejects.
StartTrimmingResume ==
  /\ modal.awaiting = "analyzeWaveform"
  /\ IF audioBuffer.decodable
       THEN LET w == analyzeWaveform(modal.trimmer[1], audioBuffer)
                autoThreshold == calculateAutoThreshold(w)
                m1 == [modal EXCEPT !.awaiting = "none",
                                    !.waveformData = <<w>>,
                                    !.currentThresholdDb = autoThreshold]
                m2 == updateTrimming(m1, settings)
            IN /\ modal' = updateButtons([m2 EXCEPT !.state = "trimming"])
               /\ lastThreshold' = autoThreshold
       ELSE /\ modal' = updateButtons([modal EXCEPT !.awaiting = "none",
                                                    !.state = "stopped",
                                                    !.trimmingVisible = FALSE])
            /\ UNCHANGED lastThreshold
  /\ UNCHANGED <<trimmerVars, audioBuffer, settings>>

\* The positions of the threshold slider the user moves it to (the slider
\* runs from -60 to -10 in steps of 1, lines 147-148).
SliderValues == {-60, -10}

\* The slider's input handler, lines 150-154.
ThresholdSliderInput ==
  /\ Interactive /\ modal.trimmingVisible
  /\ \E v \in SliderValues :
       /\ modal' = updateTrimming([modal EXCEPT !.currentThresholdDb = Rat(v)],
                                  settings)
       /\ lastThreshold' = Rat(v)
  /\ UNCHANGED <<trimmerVars, audioBuffer, settings>>

\* The auto-detect button's click handler, lines 166-174.
AutoDetectClick ==
  /\ Interactive /\ modal.trimmingVisible
  /\ modal.trimmer # <<>> /\ modal.waveformData # <<>>
  /\ LET autoThreshold == calculateAutoThreshold(modal.waveformData[1]) IN
       /\ modal' = updateTrimming(
                      [modal EXCEPT !.currentThresholdDb = autoThreshold],
                      settings)
       /\ lastThreshold' = autoThreshold
  /\ UNCHANGED <<trimmerVars, audioBuffer, settings>>

\* sendRecording up to its first await, lines 386-396, with useOriginal
\* taken to be false whatever the caller passes.
sendRecordingCallPreferringTrimmed(m, useOriginal) ==
  IF ~m.audioBlob THEN m
  ELSE [updateButtons([m EXCEPT !.state = "uploading"]) EXCEPT
          !.blobToSend = IF m.trimmedBlob # <<>>
                           THEN "trimmed" ELSE "original",
          !.trimmingVisible = FALSE,
          !.awaiting = "sendRecording"]

\* sendRecording up to its first await, lines 386-396.
sendRecordingCall(m, useOriginal) ==
  IF ~m.audioBlob THEN m
  ELSE [updateButtons([m EXCEPT !.state = "uploading"]) EXCEPT
          !.blobToSend = IF ~useOriginal /\ m.trimmedBlob # <<>>
                           THEN "trimmed" ELSE "original",
          !.trimmingVisible = FALSE,
          !.awaiting = "sendRecording"]

\* A button that sends was pressed: what the press's calls were given is
\* recorded from here on.
Pressed(m, button) ==
  [m EXCEPT !.pressed = button, !.trimAudio = "none",
            !.saveAudio = "none", !.transcribe = "none"]

\* onClose, lines 242-261.
onClose(m) ==
  [m EXCEPT !.closed = TRUE,
            !.recorder = m.state \in {"recording", "paused"} /\ m.recorder]

\* The send button of state 'stopped' and the send-original button of the
\* trimming screen, lines 754 and 762: sendRecording(true).
SendOriginalClick ==
  /\ Interactive /\ modal.buttons \in {"stopped", "trimming"}
  /\ modal' = sendRecordingCall(Pressed(modal, "sendOriginal"), TRUE)
  /\ UNCHANGED <<trimmerVars, audioBuffer, settings, lastThreshold>>

\* sendRecording from its first await on, lines 396-455, with saveAudio
\* given the blob chosen for transcription.
SendRecordingResumeSavingSent ==
  /\ modal.awaiting = "sendRecording"
  /\ \E outcome \in {"saveFailed", "offline", "transcribeFailed", "done"} :
       /\ outcome = "saveFailed" => ~modal.existingAudioPath
       /\ LET m1 == [modal EXCEPT
                       !.awaiting = "none",
                       !.saveAudio = IF modal.existingAudioPath THEN "none"
                                     ELSE modal.blobToSend,
                       !.transcribe =
                          IF outcome \in {"transcribeFailed", "done"}
                            THEN modal.blobToSend ELSE "none"]
          IN modal' = IF outcome \in {"offline", "done"}
                        THEN onClose(m1)
                        ELSE updateButtons([m1 EXCEPT !.state = "stopped"])
  /\ UNCHANGED <<trimmerVars, audioBuffer, settings, lastThreshold>>

\* sendRecording from its first await on, lines 396-455: saveAudio is given
\* this.audioBlob (line 413, skipped for a stored file) and rejects, or the
\* device is offline, or transcribe is given blobToSend (line 426) and it or
\* the saving of its result rejects, or all of it is done.
SendRecordingResume ==
  /\ modal.awaiting = "sendRecording"
  /\ \E outcome \in {"saveFailed", "offline", "transcribeFailed", "done"} :
       /\ outcome = "saveFailed" => ~modal.existingAudioPath
       /\ LET m1 == [modal EXCEPT
                       !.awaiting = "none",
                       !.saveAudio = IF modal.existingAudioPath THEN "none"
                                     ELSE "original",
                       !.transcribe =
                          IF outcome \in {"transcribeFailed", "done"}
                            THEN modal.blobToSend ELSE "none"]
          IN modal' = IF outcome \in {"offline", "done"}
                        THEN onClose(m1)
                        ELSE updateButtons([m1 EXCEPT !.state = "stopped"])
  /\ UNCHANGED <<trimmerVars, audioBuffer, settings, lastThreshold>>

\* sendTrimmedRecording up to its await, lines 642-652.
SendTrimmedClick ==
  /\ Interactive /\ modal.buttons = "trimming"
  /\ modal' =
       IF ~modal.audioBlob \/ modal.trimmer = <<>> \/ modal.trimmedSegments = <<>>
         THEN modal
         ELSE [updateButtons([Pressed(modal, "send") EXCEPT
                                !.state = "analyzing"]) EXCEPT
                 !.awaiting = "trimAudio",
                 !.trimArg = modal.trimmedSegments]
  /\ UNCHANGED <<trimmerVars, audioBuffer, settings, lastThreshold>>

\* sendTrimmedRecording from its await on, lines 652-661: trimAudio resolves
\* and the trimmed blob is sent, or it rejects and the original is sent.
SendTrimmedResume ==
  /\ modal.awaiting = "trimAudio"
  /\ \E ok \in BOOLEAN :
       modal' = IF ok
                  THEN sendRecordingCall(
                         [modal EXCEPT !.trimmedBlob = <<"trimmed">>,
                                       !.trimArg = <<>>,
                                       !.trimAudio = "resolved"], FALSE)
                  ELSE sendRecordingCall(
                         [modal EXCEPT !.trimArg = <<>>,
                                       !.trimAudio = "rejected"], TRUE)
  /\ UNCHANGED <<trimmerVars, audioBuffer, settings, lastThreshold>>

\* The user closes the modal.
CloseModal ==
  /\ Interactive
  /\ modal' = onClose(modal)
  /\ UNCHANGED <<trimmerVars, audioBuffer, settings, lastThreshold>>

----------------------------------------------------------------------------
(* The trimmer called on hand-made input, as the unit tests call it: the   *)
(* input is drawn once, then the methods are called in any order.  The     *)
(* output of calculateSilenceSegments is what applyMargin and              *)
(* calculateTrimStats are given.                                           *)

\* DEFAULT_TRIM_CONFIG, lines 52-56: -40 dB, 0.6 s, 0.2 s.
DEFAULT_TRIM_CONFIG ==
  [thresholdDb |-> Rat(-40), minSilenceDuration |-> 600, silenceMargin |-> 200]

Resolutions == {100, 200}
DbValues == {NegInf, -40, -20}
Thresholds == {Rat(-40)}
MinSilenceDurations == {0, 300, 600}
SilenceMargins == {0, 200, 300}

\* The segment array of `w` with the isSilence flags `flags`.
Classified(w, flags) ==
  [j \in 1..Len(w.segments) |-> [w.segments[j] EXCEPT !.isSilence = flags[j]]]

\* No audio blob at hand: the synchronous methods take none.
NoAudio == [decodable |-> FALSE, sampleRate |-> 10, channelData |-> <<>>]

\* No modal is open: the trimmer is called on its own.
NoModal ==
  /\ modal = [state |-> "ready"]
  /\ settings = [enableTrimming |-> FALSE]
  /\ lastThreshold = Rat(0)

\* Segments of `res` ms each, partitioning [0, Len * res), not yet classified.
MkSegments(dbs, res) ==
  [j \in 1..Len(dbs) |->
     [startTime |-> (j - 1) * res, endTime |-> j * res,
      isSilence |-> FALSE, avgDb |-> dbs[j]]]

FiniteDbs(segments) ==
  {segments[j].avgDb : j \in {k \in 1..Len(segments) : segments[k].avgDb # NegInf}}

SetMax(S) == CHOOSE x \in S : \A y \in S : y <= x
SetMin(S) == CHOOSE x \in S : \A y \in S : x <= y

MkWaveform(dbs, res) ==
  LET segments == MkSegments(dbs, res) IN
  [segments |-> segments,
   duration |-> Len(dbs) * res,
   maxDb |-> IF FiniteDbs(segments) = {} THEN 0 ELSE SetMax(FiniteDbs(segments)),
   minDb |-> IF FiniteDbs(segments) = {} THEN -60 ELSE SetMin(FiniteDbs(segments)),
   resolution |-> res]

\* No second classification yet.
NoAgain == [input |-> "none", segments |-> <<>>]

NoStats == [trimmedDuration |-> 0, removedDuration |-> 0,
            removedPercentage |-> Rat(0), removedSegments |-> 0]

InitTrimmer ==
  /\ resolution \in Resolutions
  /\ \E n \in 0..MaxSegs : \E dbs \in [1..n -> DbValues] :
       waveformData = MkWaveform(dbs, resolution)
  /\ config \in [thresholdDb : Thresholds,
                 minSilenceDuration : MinSilenceDurations,
                 silenceMargin : SilenceMargins]
  /\ returned = {}
  /\ silenceResult = <<>>
  /\ againResult = NoAgain
  /\ marginResult = <<>>
  /\ rangesResult = <<>>
  /\ statsResult = NoStats
  /\ thresholdResult = Rat(0)
  /\ audioBuffer = NoAudio
  /\ analyze = NoAnalysis
  /\ trim = NoTrim
  /\ NoModal

CallCalculateSilenceSegments ==
  /\ "calculateSilenceSegments" \notin returned
  /\ silenceResult' = calculateSilenceSegments(resolution, waveformData, config)
  /\ returned' = returned \cup {"calculateSilenceSegments"}
  /\ UNCHANGED <<resolution, waveformData, config, marginResult, rangesResult,
                 statsResult, thresholdResult, againResult,
                 analysisVars, modalVars>>

\* calculateSilenceSegments called once more with the same config: on the
\* same WaveformData, on the WaveformData with its segments replaced by the
\* first result, or on the WaveformData with other isSilence flags.
CallCalculateSilenceSegmentsAgain ==
  /\ "calculateSilenceSegments" \in returned
  /\ againResult = NoAgain
  /\ \E flags \in [1..Len(waveformData.segments) -> BOOLEAN] :
       LET given == [waveformData EXCEPT !.segments = Classified(waveformData, flags)]
           input == IF given = waveformData THEN "same"
                    ELSE IF given.segments = silenceResult THEN "classified"
                    ELSE "other"
       IN againResult' =
            [input |-> input,
             segments |-> calculateSilenceSegments(resolution, given, config)]
  /\ UNCHANGED <<resolution, waveformData, config, returned, silenceResult,
                 marginResult, rangesResult, statsResult, thresholdResult,
                 analysisVars, modalVars>>

\* Mutant: applyMargin without the copy of line 216, writing its result
\* into the array it was given.
CallApplyMarginInPlace ==
  /\ "calculateSilenceSegments" \in returned
  /\ "applyMargin" \notin returned
  /\ marginResult' = applyMargin(resolution, silenceResult, config.silenceMargin)
  /\ silenceResult' = marginResult'
  /\ returned' = returned \cup {"applyMargin"}
  /\ UNCHANGED <<resolution, waveformData, config, rangesResult,
                 statsResult, thresholdResult, againResult,
                 analysisVars, modalVars>>

CallApplyMargin ==
  /\ "calculateSilenceSegments" \in returned
  /\ "applyMargin" \notin returned
  /\ marginResult' = applyMargin(resolution, silenceResult, config.silenceMargin)
  /\ returned' = returned \cup {"applyMargin"}
  /\ UNCHANGED <<resolution, waveformData, config, silenceResult, rangesResult,
                 statsResult, thresholdResult, againResult,
                 analysisVars, modalVars>>

CallCalculateTrimRanges ==
  /\ "calculateTrimRanges" \notin returned
  /\ rangesResult' = calculateTrimRanges(resolution, waveformData, config)
  /\ returned' = returned \cup {"calculateTrimRanges"}
  /\ UNCHANGED <<resolution, waveformData, config, silenceResult, marginResult,
                 statsResult, thresholdResult, againResult,
                 analysisVars, modalVars>>

CallCalculateTrimStats ==
  /\ "calculateSilenceSegments" \in returned
  /\ "calculateTrimStats" \notin returned
  /\ statsResult' = calculateTrimStats(silenceResult, waveformData.duration)
  /\ returned' = returned \cup {"calculateTrimStats"}
  /\ UNCHANGED <<resolution, waveformData, config, silenceResult, marginResult,
                 rangesResult, thresholdResult, againResult,
                 analysisVars, modalVars>>

NextTrimmer ==
  \/ CallCalculateSilenceSegments
  \/ CallApplyMargin
  \/ CallCalculateTrimRanges
  \/ CallCalculateTrimStats

SpecTrimmer == InitTrimmer /\ [][NextTrimmer]_vars

\* The classifier called twice on the inputs of SpecTrimmer.
NextReclassify ==
  \/ CallCalculateSilenceSegments
  \/ CallCalculateSilenceSegmentsAgain

SpecReclassify == InitTrimmer /\ [][NextReclassify]_vars

----------------------------------------------------------------------------
(* calculateAutoThreshold called on hand-made waveforms of up to           *)
(* MaxThresholdSegs segments: a very quiet level (below the lower clamp), a *)
(* loud level (above the upper clamp) and digital silence.                 *)

ThresholdDbValues == {NegInf, -70, -24}

InitThreshold ==
  /\ resolution = 200
  /\ \E n \in 0..MaxThresholdSegs : \E dbs \in [1..n -> ThresholdDbValues] :
       waveformData = MkWaveform(dbs, resolution)
  /\ config = DEFAULT_TRIM_CONFIG
  /\ returned = {}
  /\ silenceResult = <<>>
  /\ againResult = NoAgain
  /\ marginResult = <<>>
  /\ rangesResult = <<>>
  /\ statsResult = NoStats
  /\ thresholdResult = Rat(0)
  /\ audioBuffer = NoAudio
  /\ analyze = NoAnalysis
  /\ trim = NoTrim
  /\ NoModal

CallCalculateAutoThreshold ==
  /\ "calculateAutoThreshold" \notin returned
  /\ thresholdResult' = calculateAutoThreshold(waveformData)
  /\ returned' = returned \cup {"calculateAutoThreshold"}
  /\ UNCHANGED <<resolution, waveformData, config, silenceResult, marginResult,
                 rangesResult, statsResult, againResult,
                 analysisVars, modalVars>>

NextThreshold == CallCalculateAutoThreshold

SpecThreshold == InitThreshold /\ [][NextThreshold]_vars

\* The five synchronous methods of one trimmer called on the same
\* WaveformData, in any order.
NextMethods ==
  \/ NextTrimmer
  \/ CallCalculateAutoThreshold

SpecMethods == InitTrimmer /\ [][NextMethods]_vars

----------------------------------------------------------------------------
(* Two trimmers given the same WaveformData and TrimConfig: the one that   *)
(* made the WaveformData (so waveformData.resolution is its resolution)    *)
(* and another one, constructed with any resolution.  againResult holds    *)
(* what the other trimmer returns.                                         *)

\* new AudioTrimmer(other), then calculateSilenceSegments and
\* calculateTrimRanges of that trimmer.
CallOtherTrimmer ==
  /\ againResult = NoAgain
  /\ \E other \in Resolutions :
       againResult' =
         [input |-> "otherTrimmer",
          resolution |-> other,
          segments |-> calculateSilenceSegments(other, waveformData, config),
          ranges |-> calculateTrimRanges(other, waveformData, config)]
  /\ UNCHANGED <<resolution, waveformData, config, returned, silenceResult,
                 marginResult, rangesResult, statsResult, thresholdResult,
                 analysisVars, modalVars>>

NextTwoTrimmers ==
  \/ CallCalculateSilenceSegments
  \/ CallCalculateTrimRanges
  \/ CallOtherTrimmer

SpecTwoTrimmers == InitTrimmer /\ [][NextTwoTrimmers]_vars

----------------------------------------------------------------------------
(* applyMargin called on every marking of up to MaxMarginSegs segments:    *)
(* with minSilenceDuration 0 calculateSilenceSegments returns the raw      *)
(* marking, and every segment is at -40 dB (silence) or -20 dB (speech).   *)

MaxMarginSegs == 5

InitMargin ==
  /\ resolution \in Resolutions
  /\ \E n \in 0..MaxMarginSegs : \E dbs \in [1..n -> {-40, -20}] :
       waveformData = MkWaveform(dbs, resolution)
  /\ config \in [thresholdDb : Thresholds,
                 minSilenceDuration : {0},
                 silenceMargin : SilenceMargins]
  /\ returned = {}
  /\ silenceResult = <<>>
  /\ againResult = NoAgain
  /\ marginResult = <<>>
  /\ rangesResult = <<>>
  /\ statsResult = NoStats
  /\ thresholdResult = Rat(0)
  /\ audioBuffer = NoAudio
  /\ analyze = NoAnalysis
  /\ trim = NoTrim
  /\ NoModal

NextMargin ==
  \/ CallCalculateSilenceSegments
  \/ CallApplyMargin

SpecMargin == InitMargin /\ [][NextMargin]_vars

----------------------------------------------------------------------------
(* analyzeWaveform called on decoded audio of up to MaxSamples samples.    *)
(* The sample rates divide 1000, so that every sample boundary is a whole  *)
(* number of ms; the resolutions give windows of 0 to 5 samples, some of   *)
(* them not a whole number of samples before rounding down.                *)

SampleRates == {10, 20}
AnalysisResolutions == {50, 100, 200, 250}

InitAnalyze ==
  /\ resolution \in AnalysisResolutions
  /\ \E n \in 0..MaxSamples : \E data \in [1..n -> SampleValues] :
     \E rate \in SampleRates : \E ok \in BOOLEAN :
       audioBuffer = [decodable |-> ok, sampleRate |-> rate, channelData |-> data]
  /\ analyze = NoAnalysis
  /\ trim = NoTrim
  /\ NoModal
  /\ waveformData = MkWaveform(<<>>, resolution)
  /\ config = DEFAULT_TRIM_CONFIG
  /\ returned = {}
  /\ silenceResult = <<>>
  /\ againResult = NoAgain
  /\ marginResult = <<>>
  /\ rangesResult = <<>>
  /\ statsResult = NoStats
  /\ thresholdResult = Rat(0)

NextAnalyze ==
  \/ AnalyzeCall
  \/ AnalyzeDecode
  \/ AnalyzeIteration
  \/ AnalyzeLoopEnd
  \/ AnalyzeFinally

SpecAnalyze == InitAnalyze /\ [][NextAnalyze]_vars

----------------------------------------------------------------------------
(* The classifier called on what analyzeWaveform returns, with the same    *)
(* trimmer: audio of up to MaxPipelineSamples samples at 10 samples per    *)
(* second and a resolution of 200 ms, so that a window is two samples and  *)
(* the last window is one sample when the number of samples is odd.        *)

MaxPipelineSamples == 7

PipelineSampleValues == {0, 100}

InitPipeline ==
  /\ resolution = 200
  /\ \E n \in 0..MaxPipelineSamples : \E data \in [1..n -> PipelineSampleValues] :
       audioBuffer = [decodable |-> TRUE, sampleRate |-> 10, channelData |-> data]
  /\ config \in [thresholdDb : Thresholds,
                 minSilenceDuration : MinSilenceDurations,
                 silenceMargin : {0}]
  /\ analyze = NoAnalysis
  /\ trim = NoTrim
  /\ NoModal
  /\ waveformData = MkWaveform(<<>>, resolution)
  /\ returned = {}
  /\ silenceResult = <<>>
  /\ againResult = NoAgain
  /\ marginResult = <<>>
  /\ rangesResult = <<>>
  /\ statsResult = NoStats
  /\ thresholdResult = Rat(0)

\* calculateSilenceSegments(waveformData, config) on the WaveformData that
\* analyzeWaveform has returned.
CallCalculateSilenceSegmentsOnAnalysis ==
  /\ analyze.pc = "returned"
  /\ CallCalculateSilenceSegments

NextPipeline ==
  \/ NextAnalyze
  \/ CallCalculateSilenceSegmentsOnAnalysis

SpecPipeline == InitPipeline /\ [][NextPipeline]_vars

----------------------------------------------------------------------------
(* trimAudio called on decoded audio of up to MaxTrimSamples samples in    *)
(* one or two channels, with a segment array as calculateTrimRanges gives  *)
(* it for that audio: the windows of analyzeWaveform, each marked silence  *)
(* or not.  Sample i of channel c holds the tag i + 100 * (c - 1), so that *)
(* a copied sample shows where it came from.                               *)

MaxTrimSamples == 6

TrimResolutions == {100, 200}
ChannelCounts == {1, 2}

TaggedChannel(n, c) == [i \in 1..n |-> i + 100 * (c - 1)]

\* The products of the n-sample audio that doubles may get wrong: none, or
\* that of one boundary after the first sample, and that of line 333.
Inexact(n) ==
  [boundary : {0}, direction : {0}, duration : BOOLEAN]
    \cup [boundary : 1..n, direction : {-1, 1}, duration : BOOLEAN]

TrimAudioInput(n, rate, channelCount, ok, renderable, inexact) ==
  [decodable |-> ok, renderable |-> renderable, sampleRate |-> rate,
   channelData |-> TaggedChannel(n, 1),
   channels |-> [c \in 1..channelCount |-> TaggedChannel(n, c)],
   inexact |-> inexact]

InitTrimAudio ==
  /\ resolution \in TrimResolutions
  /\ \E n \in 0..MaxTrimSamples : \E rate \in SampleRates :
     \E channelCount \in ChannelCounts : \E ok, renderable \in BOOLEAN :
     \E inexact \in Inexact(n) :
       /\ audioBuffer = TrimAudioInput(n, rate, channelCount, ok, renderable,
                                      inexact)
       /\ LET w == analyzeWaveform(resolution, audioBuffer) IN
          \E flags \in [1..Len(w.segments) -> BOOLEAN] :
            trim = [NoTrim EXCEPT !.segments = Classified(w, flags)]
  /\ analyze = NoAnalysis
  /\ NoModal
  /\ waveformData = MkWaveform(<<>>, resolution)
  /\ config = DEFAULT_TRIM_CONFIG
  /\ returned = {}
  /\ silenceResult = <<>>
  /\ againResult = NoAgain
  /\ marginResult = <<>>
  /\ rangesResult = <<>>
  /\ statsResult = NoStats
  /\ thresholdResult = Rat(0)

NextTrimAudio ==
  \/ TrimCall
  \/ TrimDecode
  \/ TrimRender
  \/ TrimFinally

SpecTrimAudio == InitTrimAudio /\ [][NextTrimAudio]_vars

\* The audio and the segment array of a call: as in InitTrimAudio, of up
\* to maxSamples samples in one channel at 10 samples per second, with all
\* products exact.
AudioCallInputs(res, maxSamples) ==
  UNION { LET buffer == TrimAudioInput(n, 10, 1, ok, renderable, Exact)
              w == analyzeWaveform(res, buffer)
          IN { [buffer |-> buffer, segments |-> Classified(w, flags)] :
                 flags \in [1..Len(w.segments) -> BOOLEAN] } :
            n \in 0..maxSamples, ok \in BOOLEAN, renderable \in BOOLEAN }

\* analyzeWaveform and trimAudio both called on the audio, each with an
\* audio context of its own, their steps interleaved.
NextAudioCalls == NextAnalyze \/ NextTrimAudio

SpecAudioCalls == InitTrimAudio /\ [][NextAudioCalls]_vars

\* One trimmer used for up to MaxCalls calls of each method, one audio
\* after the other, each of up to MaxRepeatSamples samples.
MaxCalls == 2
MaxRepeatSamples == 3

InitRepeat ==
  /\ resolution \in TrimResolutions
  /\ \E input \in AudioCallInputs(resolution, MaxRepeatSamples) :
       /\ audioBuffer = input.buffer
       /\ trim = [NoTrim EXCEPT !.segments = input.segments]
  /\ analyze = NoAnalysis
  /\ NoModal
  /\ waveformData = MkWaveform(<<>>, resolution)
  /\ config = DEFAULT_TRIM_CONFIG
  /\ returned = {}
  /\ silenceResult = <<>>
  /\ againResult = NoAgain
  /\ marginResult = <<>>
  /\ rangesResult = <<>>
  /\ statsResult = NoStats
  /\ thresholdResult = Rat(0)

\* Both calls have settled; the caller takes the next audio and calls the
\* two methods of the same trimmer on it.
CallAgain ==
  /\ analyze.pc \in {"returned", "thrown"}
  /\ trim.pc \in {"returned", "thrown"}
  /\ analyze.calls + 1 < MaxCalls
  /\ \E input \in AudioCallInputs(resolution, MaxRepeatSamples) :
       /\ audioBuffer' = input.buffer
       /\ analyze' = [NoAnalysis EXCEPT
                        !.calls = analyze.calls + 1,
                        !.failed = analyze.failed
                                     + (IF analyze.pc = "thrown" THEN 1 ELSE 0)]
       /\ trim' = [NoTrim EXCEPT
                     !.segments = input.segments,
                     !.calls = trim.calls + 1,
                     !.failed = trim.failed
                                  + (IF trim.pc = "thrown" THEN 1 ELSE 0)]
  /\ UNCHANGED <<resolution, waveformData, config, trimmerResults, modalVars>>

NextRepeat ==
  \/ NextAnalyze
  \/ NextTrimAudio
  \/ CallAgain

SpecRepeat == InitRepeat /\ [][NextRepeat]_vars

----------------------------------------------------------------------------
(* The recorder modal: a stored file's audio is there from the start, a    *)
(* recording's audio arrives when the recording is stopped.                *)

InitModal ==
  /\ settings \in [enableTrimming : BOOLEAN,
                   autoSkipDuration : {20},
                   defaultThresholdDb : {-40},
                   minSilenceDuration : {100, 400},
                   silenceMargin : {0, 200}]
  /\ \E how \in {"new", "existingAudio", "recording", "paused"} :
       /\ modal = ModalConstructed(how, 10)
       /\ IF how = "existingAudio" THEN audioBuffer \in ModalAudio
                                   ELSE audioBuffer = NoAudio
  /\ lastThreshold = Rat(settings.defaultThresholdDb)
  /\ resolution = ModalResolution
  /\ waveformData = MkWaveform(<<>>, resolution)
  /\ config = DEFAULT_TRIM_CONFIG
  /\ returned = {}
  /\ silenceResult = <<>>
  /\ againResult = NoAgain
  /\ marginResult = <<>>
  /\ rangesResult = <<>>
  /\ statsResult = NoStats
  /\ thresholdResult = Rat(0)
  /\ analyze = NoAnalysis
  /\ trim = NoTrim

NextModal ==
  \/ OnOpen
  \/ StartRecording
  \/ PauseRecording
  \/ ResumeRecording
  \/ StopRecording
  \/ CancelRecording
  \/ StartTrimmingResume
  \/ ThresholdSliderInput
  \/ AutoDetectClick
  \/ SendOriginalClick
  \/ SendRecordingResume
  \/ SendTrimmedClick
  \/ SendTrimmedResume
  \/ CloseModal

SpecModal == InitModal /\ [][NextModal]_vars

----------------------------------------------------------------------------
(* Claims about the classifier, the margin pass and the statistics.        *)

NumSegs == Len(waveformData.segments)

\* minSilenceSegments and marginSegments of the call, in whole segments.
MinSilenceSegs == CeilDiv(config.minSilenceDuration, resolution)
MarginSegs == CeilDiv(config.silenceMargin, resolution)

\* Condition (a) of C1 for input segment j.
Quiet(j) ==
  LET db == waveformData.segments[j].avgDb IN
  \/ db = NegInf
  \/ db * config.thresholdDb.den <= config.thresholdDb.num

\* a..b is a maximal run of indices satisfying P, within 1..n.
MaximalRun(P(_), a, b, n) ==
  /\ 1 <= a /\ a <= b /\ b <= n
  /\ \A k \in a..b : P(k)
  /\ (a = 1 \/ ~P(a - 1))
  /\ (b = n \/ ~P(b + 1))

SilentIn(segments, j) == segments[j].isSilence

\* C1: calculateSilenceSegments marks segment j silence iff j is quiet (avgDb
\* <= thresholdDb or -Infinity) and the maximal run of quiet segments around j
\* has at least minSilenceSegments segments; a run of exactly that length
\* stays silence.
C1_SilenceIffLongQuietRun ==
  "calculateSilenceSegments" \in returned =>
    /\ Len(silenceResult) = NumSegs
    /\ \A j \in 1..NumSegs :
         silenceResult[j].isSilence <=>
           \E a \in 1..j : \E b \in j..NumSegs :
             /\ MaximalRun(Quiet, a, b, NumSegs)
             /\ b - a + 1 >= MinSilenceSegs

\* C1 witness: a quiet run of exactly minSilenceSegments >= 2 segments was
\* kept as silence while a shorter quiet run was reverted.
C1_Witness ==
  /\ "calculateSilenceSegments" \in returned
  /\ MinSilenceSegs >= 2
  /\ \E a \in 1..NumSegs : \E b \in a..NumSegs :
       /\ MaximalRun(Quiet, a, b, NumSegs)
       /\ b - a + 1 = MinSilenceSegs
       /\ \A k \in a..b : silenceResult[k].isSilence
  /\ \E j \in 1..NumSegs : Quiet(j) /\ ~silenceResult[j].isSilence

\* C2: every maximal run of silence-marked segments in the output of
\* calculateSilenceSegments has at least minSilenceSegments segments, the
\* runs at the first and at the last segment included.
C2_OutputRunsLongEnough ==
  "calculateSilenceSegments" \in returned =>
    \A a \in 1..NumSegs : \A b \in a..NumSegs :
      MaximalRun(LAMBDA k : SilentIn(silenceResult, k), a, b, NumSegs)
        => b - a + 1 >= MinSilenceSegs

\* C2 witness: with minSilenceSegments >= 2 the output keeps a silence run
\* that ends at the last segment, and a quiet run at the first segment
\* was too short and reverted.
C2_Witness ==
  /\ "calculateSilenceSegments" \in returned
  /\ MinSilenceSegs >= 2
  /\ NumSegs >= 1
  /\ silenceResult[NumSegs].isSilence
  /\ Quiet(1) /\ ~silenceResult[1].isSilence

\* Distance from j to the nearest non-silence segment of `segments` is > d.
FarFromSpeech(segments, j, d) ==
  \A i \in 1..Len(segments) :
    ~segments[i].isSilence => (IF i >= j THEN i - j ELSE j - i) > d

\* C3: applyMargin never compounds: an input silence segment farther than
\* marginSegments from every input non-silence segment is silence in the
\* output.
C3_MarginNeverCompounds ==
  "applyMargin" \in returned =>
    /\ Len(marginResult) = Len(silenceResult)
    /\ \A j \in 1..Len(silenceResult) :
         (silenceResult[j].isSilence /\ FarFromSpeech(silenceResult, j, MarginSegs))
           => marginResult[j].isSilence

\* C3 witness: with a margin of at least one segment, a silence segment next
\* to speech was un-marked and its silent neighbour, one past the margin,
\* stayed silence.
C3_Witness ==
  /\ "applyMargin" \in returned
  /\ MarginSegs >= 1
  /\ \E j \in 1..(Len(silenceResult) - 1) :
       /\ silenceResult[j].isSilence /\ ~marginResult[j].isSilence
       /\ silenceResult[j + 1].isSilence /\ marginResult[j + 1].isSilence

\* C4: for every input non-silence segment i, every segment j of the array
\* with 0 < |i - j| <= marginSegments is non-silence in the output, and the
\* indices written for i all lie inside the array.
C4_MarginProtectsSpeech ==
  "applyMargin" \in returned =>
    \A i \in 1..Len(silenceResult) :
      ~silenceResult[i].isSilence =>
        /\ MarginWindow(i, MarginSegs, Len(silenceResult))
             \subseteq 1..Len(silenceResult)
        /\ \A j \in 1..Len(silenceResult) :
             (j # i /\ j - i <= MarginSegs /\ i - j <= MarginSegs)
               => ~marginResult[j].isSilence

\* C4 witness: speech at the first and at the last segment, margin of two
\* segments, and silence segments between them that the margin un-marked.
C4_Witness ==
  /\ "applyMargin" \in returned
  /\ MarginSegs >= 2
  /\ Len(silenceResult) >= 4
  /\ ~silenceResult[1].isSilence
  /\ ~silenceResult[Len(silenceResult)].isSilence
  /\ silenceResult[2].isSilence /\ ~marginResult[2].isSilence
  /\ silenceResult[Len(silenceResult) - 1].isSilence
  /\ ~marginResult[Len(silenceResult) - 1].isSilence

\* C5: calculateTrimRanges(w, c) equals applyMargin(calculateSilenceSegments(
\* w, c), c.silenceMargin), segment by segment.
C5_TrimRangesIsPipeline ==
  {"calculateTrimRanges", "applyMargin"} \subseteq returned =>
    /\ Len(rangesResult) = Len(marginResult)
    /\ \A j \in 1..Len(rangesResult) : rangesResult[j] = marginResult[j]

\* C5 witness: both results are there, the classifier marked silence and
\* the margin pass un-marked some of it.
C5_Witness ==
  /\ {"calculateTrimRanges", "applyMargin"} \subseteq returned
  /\ \E j \in 1..Len(rangesResult) :
       silenceResult[j].isSilence /\ ~rangesResult[j].isSilence
  /\ \E j \in 1..Len(rangesResult) : rangesResult[j].isSilence

\* The first segments of the maximal silence runs of `segments`.
RunStarts(segments) ==
  {j \in 1..Len(segments) :
     segments[j].isSilence /\ (j = 1 \/ ~segments[j - 1].isSilence)}

\* C10: removedSegments is the number of maximal runs of consecutive silence
\* segments, and is 0 exactly when no segment is silence.
C10_RemovedSegmentsCountsRuns ==
  "calculateTrimStats" \in returned =>
    /\ statsResult.removedSegments = Cardinality(RunStarts(silenceResult))
    /\ statsResult.removedSegments = 0 <=>
         \A j \in 1..Len(silenceResult) : ~silenceResult[j].isSilence

\* C10 witness: two silence runs, one of them longer than one segment.
C10_Witness ==
  /\ "calculateTrimStats" \in returned
  /\ statsResult.removedSegments = 2
  /\ Cardinality({j \in 1..Len(silenceResult) : silenceResult[j].isSilence}) >= 3

----------------------------------------------------------------------------
(* Claims about the automatic threshold.                                   *)

\* The indices of the finite-dB segments of the waveform.
FiniteIndices ==
  {j \in 1..NumSegs : waveformData.segments[j].avgDb # NegInf}

\* The sum of the k lowest avgDb values among the segments at indices I.
RECURSIVE SumOfLowest(_, _)
SumOfLowest(I, k) ==
  IF k = 0 \/ I = {} THEN 0
  ELSE LET m == CHOOSE i \in I : \A j \in I :
                  waveformData.segments[i].avgDb <= waveformData.segments[j].avgDb
       IN waveformData.segments[m].avgDb + SumOfLowest(I \ {m}, k - 1)

\* C8: calculateAutoThreshold returns a value in [-60, -20] for every
\* waveform, also one with no segments or with -Infinity segments only.
C8_ThresholdInRange ==
  "calculateAutoThreshold" \in returned =>
    /\ thresholdResult.den > 0
    /\ -60 * thresholdResult.den <= thresholdResult.num
    /\ thresholdResult.num <= -20 * thresholdResult.den

\* C8 witness: a waveform whose quietest fifth is below -66 dB, so that the
\* lower clamp acted.
C8_Witness ==
  /\ "calculateAutoThreshold" \in returned
  /\ FiniteIndices # {}
  /\ \A j \in FiniteIndices : waveformData.segments[j].avgDb < -66
  /\ thresholdResult = Rat(-60)

\* C9: -40 when no segment has a finite dB; otherwise, with n finite values
\* and k = max(1, floor(0.2 n)), the mean of the k lowest finite values plus
\* 6, clamped to [-60, -20]; -Infinity segments count neither in n nor in
\* the mean.
C9_ThresholdFormula ==
  "calculateAutoThreshold" \in returned =>
    LET n == Cardinality(FiniteIndices)
        k == IF n \div 5 >= 1 THEN n \div 5 ELSE 1
        \* k * (mean + 6)
        scaled == SumOfLowest(FiniteIndices, k) + 6 * k
    IN IF n = 0 THEN thresholdResult = Rat(-40)
       ELSE IF scaled > -20 * k THEN thresholdResult = Rat(-20)
       ELSE IF scaled < -60 * k THEN thresholdResult = Rat(-60)
       ELSE thresholdResult.num * k = scaled * thresholdResult.den

\* C9 witness: ten finite values and a -Infinity segment, the two lowest
\* values differ, and their mean plus 6 is returned unclamped.
C9_Witness ==
  /\ "calculateAutoThreshold" \in returned
  /\ Cardinality(FiniteIndices) = 10
  /\ NumSegs > 10
  /\ thresholdResult = [num |-> -70 + -24 + 12, den |-> 2]

----------------------------------------------------------------------------
(* Claims about analyzeWaveform.                                           *)

\* C7: for a window of at least one sample, the segments returned by
\* analyzeWaveform partition [0, duration): the first starts at 0, each ends
\* where the next starts, each has startTime < endTime, and the last ends at
\* duration (the duration of the decoded audio).
C7_SegmentsPartitionDuration ==
  (analyze.pc = "returned"
     /\ SamplesPerSegment(resolution, audioBuffer.sampleRate) >= 1) =>
    LET segments == waveformData.segments
        n == Len(segments)
    IN /\ waveformData.duration = BufferDuration(audioBuffer)
       /\ n = 0 => waveformData.duration = 0
       /\ n > 0 => /\ segments[1].startTime = 0
                   /\ segments[n].endTime = waveformData.duration
       /\ \A j \in 1..n : segments[j].startTime < segments[j].endTime
       /\ \A j \in 1..(n - 1) : segments[j].endTime = segments[j + 1].startTime

\* C7 witness: at least three segments were returned and the last is
\* shorter than the first (the audio is no whole number of windows).
C7_Witness ==
  /\ analyze.pc = "returned"
  /\ SamplesPerSegment(resolution, audioBuffer.sampleRate) >= 1
  /\ Len(waveformData.segments) >= 3
  /\ LET segments == waveformData.segments
         n == Len(segments)
     IN segments[n].endTime - segments[n].startTime
          < segments[1].endTime - segments[1].startTime

----------------------------------------------------------------------------
(* Claims about the trimming screen.                                       *)

\* C6: after any sequence of threshold adjustments, the segment array the
\* trimming screen shows and uses equals calculateTrimRanges of the modal's
\* WaveformData under the threshold chosen last (and the settings' minimum
\* silence and margin); in state 'trimming' that WaveformData is the
\* analysis of the modal's audio.
C6_SegmentsFollowLastThreshold ==
  modal.trimmedSegments # <<>> =>
    /\ modal.waveformData # <<>>
    /\ modal.trimmedSegments[1] =
         calculateTrimRanges(ModalResolution, modal.waveformData[1],
                             [thresholdDb |-> lastThreshold,
                              minSilenceDuration |-> settings.minSilenceDuration,
                              silenceMargin |-> settings.silenceMargin])
    /\ modal.state = "trimming" =>
         modal.waveformData[1].segments
           = MkSegments([j \in 1..Len(audioBuffer.channelData) |->
                           RmsToDb(audioBuffer.channelData[j]
                                     * audioBuffer.channelData[j], 1)],
                        ModalResolution)

\* C6 witness: in the trimming screen the slider was moved to -60 dB after
\* another threshold had given a different array: under -60 dB a segment
\* is not silence that is silence under the automatic threshold.
C6_Witness ==
  /\ modal.state = "trimming"
  /\ lastThreshold = Rat(-60)
  /\ modal.waveformData # <<>> /\ modal.trimmedSegments # <<>>
  /\ LET auto == calculateTrimRanges(
                   ModalResolution, modal.waveformData[1],
                   [thresholdDb |-> calculateAutoThreshold(modal.waveformData[1]),
                    minSilenceDuration |-> settings.minSilenceDuration,
                    silenceMargin |-> settings.silenceMargin])
     IN \E j \in 1..Len(auto) :
          auto[j].isSilence /\ ~modal.trimmedSegments[1][j].isSilence

----------------------------------------------------------------------------
(* Claims about the statistics' durations.                                 *)

\* The sum of endTime - startTime over the segments at the indices I.
RECURSIVE SumDurations(_, _)
SumDurations(segments, I) ==
  IF I = {} THEN 0
  ELSE LET j == CHOOSE k \in I : TRUE
       IN (segments[j].endTime - segments[j].startTime)
            + SumDurations(segments, I \ {j})

\* C11: calculateTrimStats returns trimmedDuration = the sum of
\* endTime - startTime over the non-silence segments, removedDuration =
\* originalDuration - trimmedDuration (the two sum to originalDuration), and
\* removedPercentage = 100 * removedDuration / originalDuration when
\* originalDuration > 0, and 0 when originalDuration is 0.
C11_StatsDurations ==
  "calculateTrimStats" \in returned =>
    LET originalDuration == waveformData.duration
        speech == {j \in 1..Len(silenceResult) : ~silenceResult[j].isSilence}
    IN /\ statsResult.trimmedDuration = SumDurations(silenceResult, speech)
       /\ statsResult.removedDuration
            = originalDuration - statsResult.trimmedDuration
       /\ statsResult.trimmedDuration + statsResult.removedDuration
            = originalDuration
       /\ originalDuration > 0 =>
            /\ statsResult.removedPercentage.den > 0
            /\ statsResult.removedPercentage.num * originalDuration
                 = 100 * statsResult.removedDuration
                     * statsResult.removedPercentage.den
       /\ originalDuration = 0 => statsResult.removedPercentage = Rat(0)

\* C11 witness: 1.0 s of audio with 0.4 s of it silence, in two runs: 40%.
C11_Witness ==
  /\ "calculateTrimStats" \in returned
  /\ waveformData.duration = 1000
  /\ statsResult.trimmedDuration = 600
  /\ statsResult.removedDuration = 400
  /\ statsResult.removedPercentage.num = 40 * statsResult.removedPercentage.den
  /\ statsResult.removedSegments = 2

----------------------------------------------------------------------------
(* Claims about trimAudio.                                                 *)

\* The non-silence segments of the array given to trimAudio, and the first
\* segments of its maximal runs of non-silence.
TrimSpeech == {j \in 1..Len(trim.segments) : ~trim.segments[j].isSilence}
TrimSpeechRunStarts ==
  {j \in TrimSpeech : j = 1 \/ trim.segments[j - 1].isSilence}

\* C12: the buffer rendered by trimAudio has the source's sample rate and
\* channel count, and its length in samples is the sum of the kept
\* durations times the sample rate, rounded up, or one more where the
\* product of doubles is inexact: within one sample per boundary of a kept
\* range, and never less than the kept samples.
C12_TrimmedBufferLength ==
  trim.pc = "returned" =>
    LET rendered == trim.result[1].trimmedBlob
        \* the kept duration in ms times the samples per second
        kept == SumDurations(trim.segments, TrimSpeech) * audioBuffer.sampleRate
        boundaries == 2 * Cardinality(TrimSpeechRunStarts)
    IN /\ rendered.sampleRate = audioBuffer.sampleRate
       /\ rendered.numberOfChannels = Len(audioBuffer.channels)
       /\ \A c \in 1..rendered.numberOfChannels :
            Len(rendered.channels[c]) = rendered.length
       /\ 1000 * rendered.length >= kept
       /\ 1000 * rendered.length - kept <= 1000 * boundaries

\* C12 witness: two channels, two kept ranges with silence removed between
\* them, and a last window shorter than the others.
C12_Witness ==
  /\ trim.pc = "returned"
  /\ Len(audioBuffer.channels) = 2
  /\ Cardinality(TrimSpeechRunStarts) = 2
  /\ trim.result[1].trimmedBlob.length < Len(audioBuffer.channelData)
  /\ trim.result[1].trimmedBlob.length > 0
  /\ LET n == Len(trim.segments) IN
       /\ ~trim.segments[n].isSilence
       /\ trim.segments[n].endTime - trim.segments[n].startTime
            < trim.segments[1].endTime - trim.segments[1].startTime

----------------------------------------------------------------------------
(* Claims about the dB values of analyzeWaveform.                          *)

\* The finite avgDb values of the returned segments.
ReturnedFiniteDbs ==
  {waveformData.segments[j].avgDb :
     j \in {k \in 1..Len(waveformData.segments) :
              waveformData.segments[k].avgDb \notin {NegInf, PosInf, NaN}}}

\* C13: in the WaveformData returned by analyzeWaveform, maxDb and minDb are
\* the maximum and the minimum of the finite avgDb values (so minDb <=
\* maxDb); when no segment has a finite avgDb, maxDb is 0 and minDb is -60.
\* Empty audio gives no segments and duration 0; all-zero audio gives
\* -Infinity segments only.
C13_DbRange ==
  analyze.pc = "returned" =>
    /\ ReturnedFiniteDbs # {} =>
         /\ waveformData.maxDb \in ReturnedFiniteDbs
         /\ waveformData.minDb \in ReturnedFiniteDbs
         /\ \A db \in ReturnedFiniteDbs :
              waveformData.minDb <= db /\ db <= waveformData.maxDb
         /\ waveformData.minDb <= waveformData.maxDb
    /\ ReturnedFiniteDbs = {} =>
         waveformData.maxDb = 0 /\ waveformData.minDb = -60
    /\ Len(audioBuffer.channelData) = 0 =>
         /\ waveformData.segments = <<>>
         /\ waveformData.duration = 0
         /\ waveformData.maxDb = 0 /\ waveformData.minDb = -60
    /\ (\A i \in 1..Len(audioBuffer.channelData) : audioBuffer.channelData[i] = 0)
         => \A j \in 1..Len(waveformData.segments) :
              waveformData.segments[j].avgDb = NegInf

\* C13 witness: a returned waveform with a -Infinity segment and two
\* different finite levels.
C13_Witness ==
  /\ analyze.pc = "returned"
  /\ \E j \in 1..Len(waveformData.segments) :
       waveformData.segments[j].avgDb = NegInf
  /\ waveformData.minDb < waveformData.maxDb
  /\ waveformData.minDb \in ReturnedFiniteDbs
  /\ waveformData.maxDb \in ReturnedFiniteDbs

\* The samples (1-based indices) of the window of returned segment j.
WindowOf(j) ==
  LET samplesPerSegment == SamplesPerSegment(resolution, audioBuffer.sampleRate)
  IN {i \in 1..Len(audioBuffer.channelData) :
        (j - 1) * samplesPerSegment < i /\ i <= j * samplesPerSegment}

\* C14: a returned segment's avgDb is -Infinity exactly when every sample of
\* its window is 0, and is finite otherwise; rmsToDb gives -Infinity for
\* every rms <= 0 (a mean square <= 0) and a finite value for every rms > 0.
C14_NegInfIffDigitalSilence ==
  /\ analyze.pc = "returned" =>
       \A j \in 1..Len(waveformData.segments) :
         /\ waveformData.segments[j].avgDb = NegInf
              <=> \A i \in WindowOf(j) : audioBuffer.channelData[i] = 0
         /\ waveformData.segments[j].avgDb # NegInf
              => waveformData.segments[j].avgDb \notin {PosInf, NaN}
  /\ \A count \in 1..MaxSamples : \A sumSquares \in (-2)..2 :
       /\ sumSquares <= 0 => RmsToDb(sumSquares, count) = NegInf
       /\ sumSquares > 0 => RmsToDb(sumSquares, count) \notin {NegInf, PosInf, NaN}

\* C14 witness: windows of two samples or more; one is all zero, another
\* holds a zero and a quiet sample and has a finite avgDb.
C14_Witness ==
  /\ analyze.pc = "returned"
  /\ SamplesPerSegment(resolution, audioBuffer.sampleRate) >= 2
  /\ \E j \in 1..Len(waveformData.segments) :
       /\ Cardinality(WindowOf(j)) >= 2
       /\ waveformData.segments[j].avgDb = NegInf
  /\ \E j \in 1..Len(waveformData.segments) :
       /\ \E i \in WindowOf(j) : audioBuffer.channelData[i] = 0
       /\ \E i \in WindowOf(j) : audioBuffer.channelData[i] = 4
       /\ \A i \in WindowOf(j) : audioBuffer.channelData[i] \in {0, 4}
       /\ waveformData.segments[j].avgDb # NegInf

----------------------------------------------------------------------------
(* Claims about repeated classification.                                   *)

\* C15: calculateSilenceSegments called again with the same config yields
\* the array of the first call, on the same WaveformData, on a WaveformData
\* whose segments are the first call's result, and on any other isSilence
\* flags of the input; the WaveformData given first is as it was.
C15_ClassificationIdempotent ==
  againResult.input # "none" =>
    /\ againResult.segments = silenceResult
    /\ \A j \in 1..Len(waveformData.segments) :
         ~waveformData.segments[j].isSilence

\* C15 witness: the second call got the first call's result, in which a
\* quiet run too short to be silence had been un-marked next to a run that
\* stayed silence.
C15_Witness ==
  /\ againResult.input = "classified"
  /\ \E j \in 1..Len(silenceResult) : silenceResult[j].isSilence
  /\ \E j \in 1..Len(silenceResult) :
       /\ ~silenceResult[j].isSilence
       /\ RawSilence(waveformData.segments[j], config.thresholdDb)

----------------------------------------------------------------------------
(* Claims about the audio context.                                         *)

\* The context of a call frame is handled as it should be: none before the
\* call, open and not yet closed while the call runs, closed by exactly one
\* close() once the call has settled.
ContextReleased(frame) ==
  /\ frame.closes <= 1
  /\ frame.pc = "idle" => frame.context = "none" /\ frame.closes = 0
  /\ frame.pc \notin {"idle", "returned", "thrown"} =>
       frame.context = "open" /\ frame.closes = 0
  /\ frame.pc \in {"returned", "thrown"} =>
       frame.context = "closed" /\ frame.closes = 1

\* C16: in every execution of analyzeWaveform and of trimAudio the audio
\* context made at entry is closed exactly once before the call settles,
\* whether the call returns, the decoding fails or the encoding fails.
C16_ContextClosedOnce ==
  ContextReleased(analyze) /\ ContextReleased(trim)

\* C16 witness: on one audio analyzeWaveform has returned and trimAudio has
\* thrown after a successful decode (the rendering failed); both contexts
\* are closed.
C16_Witness ==
  /\ analyze.pc = "returned" /\ analyze.context = "closed"
  /\ trim.pc = "thrown" /\ trim.context = "closed"
  /\ audioBuffer.decodable /\ ~audioBuffer.renderable

----------------------------------------------------------------------------
(* Claims about failing calls.                                             *)

\* One decoding attempt per call; a call that returned gives what a first
\* call on a new trimmer gives for its input; a call that threw gives no
\* result.
FailureIsLocal ==
  /\ analyze.decodes <= 1 /\ trim.decodes <= 1
  /\ analyze.pc \in {"returned", "thrown"} => analyze.decodes = 1
  /\ trim.pc \in {"returned", "thrown"} => trim.decodes = 1
  /\ analyze.pc = "returned" =>
       /\ audioBuffer.decodable
       /\ waveformData = analyzeWaveform(resolution, audioBuffer)
  /\ trim.pc = "returned" =>
       /\ audioBuffer.decodable /\ audioBuffer.renderable
       /\ trim.result = <<TrimResult(trim.segments, audioBuffer)>>
  /\ trim.pc = "thrown" =>
       /\ ~(audioBuffer.decodable /\ audioBuffer.renderable)
       /\ trim.result = <<>>
  /\ analyze.pc = "thrown" => ~audioBuffer.decodable

\* No step of a call changes the trimmer, and a call that throws hands no
\* WaveformData to its caller.
FailureLeavesTrimmer ==
  /\ resolution' = resolution
  /\ analyze'.pc = "thrown" => waveformData' = waveformData

\* C17: when decoding or encoding fails, analyzeWaveform and trimAudio make
\* one attempt only, give their caller the failure and no partial result,
\* and leave the trimmer as it was: a later call on valid input returns
\* what it would have returned had the failed call never been made.
C17_FailedCallLeavesNoTrace ==
  []FailureIsLocal /\ [][FailureLeavesTrimmer]_vars

\* C17 witness: the earlier calls of both methods threw, and the calls on
\* the next audio have returned a waveform of two segments and a trimmed
\* buffer.
C17_Witness ==
  /\ analyze.failed = 1 /\ analyze.pc = "returned"
  /\ trim.failed = 1 /\ trim.pc = "returned"
  /\ Len(waveformData.segments) = 2
  /\ trim.result # <<>>
  /\ trim.result[1].trimmedBlob.length > 0

----------------------------------------------------------------------------
(* Claims about the duration of detected silence.                          *)

\* The maximal runs a..b of silence segments in `segments`.
SilenceRuns(segments) ==
  {r \in (1..Len(segments)) \X (1..Len(segments)) :
     /\ r[1] <= r[2]
     /\ \A j \in r[1]..r[2] : segments[j].isSilence
     /\ r[1] = 1 \/ ~segments[r[1] - 1].isSilence
     /\ r[2] = Len(segments) \/ ~segments[r[2] + 1].isSilence}

\* C18: in the output of calculateSilenceSegments no maximal run of silence
\* segments lasts less than minSilenceDuration (endTime of its last segment
\* minus startTime of its first), also when the run includes a shorter
\* final segment.
C18_NoSilenceBelowMinimum ==
  (analyze.pc = "returned" /\ "calculateSilenceSegments" \in returned) =>
    \A r \in SilenceRuns(silenceResult) :
      silenceResult[r[2]].endTime - silenceResult[r[1]].startTime
        >= config.minSilenceDuration

----------------------------------------------------------------------------
\* C19: whichever of Send and Send Original was pressed, and whether or not
\* trimAudio resolved, the blob sendRecording hands to saveAudio is the
\* original recording, never the trimmed blob.
C19_SavedBlobIsOriginal ==
  modal.saveAudio # "none" => modal.saveAudio = "original"

\* Send was pressed, trimAudio resolved and the trimmed blob was chosen for
\* transcription, and saveAudio was called.
C19_Witness ==
  /\ modal.pressed = "send" /\ modal.trimAudio = "resolved"
  /\ modal.blobToSend = "trimmed"
  /\ modal.saveAudio = "original"

\* C20: after Send Original, and after Send when trimAudio rejected, the
\* blob given to transcribe is the original; the trimmed blob is given to
\* transcribe only after the trimAudio of the same Send press resolved.
C20_TrimmedSentOnlyAfterTrim ==
  /\ (modal.pressed = "sendOriginal" \/ modal.trimAudio = "rejected") =>
       (modal.blobToSend # "trimmed" /\ modal.transcribe # "trimmed")
  /\ modal.transcribe = "trimmed" =>
       (modal.pressed = "send" /\ modal.trimAudio = "resolved")

\* An earlier Send left a trimmed blob in the modal, and a later Send
\* Original transmitted the original.
C20_Witness ==
  /\ modal.pressed = "sendOriginal" /\ modal.trimmedBlob # <<>>
  /\ modal.transcribe = "original"

----------------------------------------------------------------------------
\* C21: when trimming is disabled in the settings, or the duration of the
\* audio is at most autoSkipDuration, the modal that holds the audio is in
\* neither 'analyzing' nor 'trimming' but in 'stopped' (or 'uploading',
\* once the audio is sent), for a recording and for a stored file alike.
C21_TrimmingScreenSkipped ==
  (/\ modal.opened /\ modal.audioBlob
   /\ \/ ~settings.enableTrimming
      \/ modal.duration <= settings.autoSkipDuration) =>
    modal.state \in {"stopped", "uploading"}

----------------------------------------------------------------------------
\* The maximal runs a..b of non-silence segments in `segments`.
SpeechRuns(segments) ==
  {r \in (1..Len(segments)) \X (1..Len(segments)) :
     /\ r[1] <= r[2]
     /\ \A j \in r[1]..r[2] : ~segments[j].isSilence
     /\ r[1] = 1 \/ segments[r[1] - 1].isSilence
     /\ r[2] = Len(segments) \/ segments[r[2] + 1].isSilence}

\* C22: for the contiguous segment array given to trimAudio, the keep-ranges
\* are in time order and disjoint, the k-th keep-range runs from the start
\* of the first segment to the end of the last segment of the k-th maximal
\* run of non-silence segments (so runs separated by silence are never
\* merged), and no silence segment lies inside a keep-range.
C22_KeepRangesAreSpeechRuns ==
  trim.pc = "returned" =>
    LET segments == trim.segments
        keepRanges == KeepRanges(segments)
        runs == SpeechRuns(segments)
    IN /\ Len(keepRanges) = Cardinality(runs)
       /\ \A r \in runs :
            LET k == Cardinality({q \in runs : q[1] <= r[1]}) IN
            keepRanges[k] = [start |-> segments[r[1]].startTime,
                             end |-> segments[r[2]].endTime]
       /\ \A k \in 1..(Len(keepRanges) - 1) :
            keepRanges[k].end < keepRanges[k + 1].start
       /\ \A k \in 1..Len(keepRanges) : keepRanges[k].start < keepRanges[k].end
       /\ \A j \in 1..Len(segments) : \A k \in 1..Len(keepRanges) :
            segments[j].isSilence =>
              \/ segments[j].endTime <= keepRanges[k].start
              \/ segments[j].startTime >= keepRanges[k].end

\* C22 witness: speech, silence, then two speech segments merged into one
\* keep-range.
C22_Witness ==
  /\ trim.pc = "returned"
  /\ Len(trim.segments) >= 4
  /\ Len(KeepRanges(trim.segments)) = 2
  /\ \E r \in SpeechRuns(trim.segments) : r[1] > 1 /\ r[2] > r[1]

----------------------------------------------------------------------------
\* The samples of channel c in the windows of the non-silence segments from
\* segment j on, in order: window j of analyzeWaveform holds the samples
\* (j - 1) * samplesPerSegment + 1 .. j * samplesPerSegment of the source
\* (fewer in the last window).
RECURSIVE KeptSamples(_, _)
KeptSamples(c, j) ==
  IF j > Len(trim.segments) THEN <<>>
  ELSE
    LET samplesPerSegment == SamplesPerSegment(resolution, audioBuffer.sampleRate)
        window == SubSeq(audioBuffer.channels[c],
                         (j - 1) * samplesPerSegment + 1,
                         Min(j * samplesPerSegment, Len(audioBuffer.channelData)))
    IN (IF trim.segments[j].isSilence THEN <<>> ELSE window) \o KeptSamples(c, j + 1)

\* writeOffset when the copy loop of trimAudio reaches range k.
RECURSIVE WriteOffsetAt(_, _)
WriteOffsetAt(keepRanges, k) ==
  IF k = 1 THEN 0
  ELSE WriteOffsetAt(keepRanges, k - 1) + RangeLength(keepRanges[k - 1], audioBuffer)

\* The indices of destData that the copy of range k writes.
WrittenBy(keepRanges, k, destLength) ==
  {WriteOffsetAt(keepRanges, k) + i :
     i \in {i \in 0..(RangeLength(keepRanges[k], audioBuffer) - 1) :
              WriteOffsetAt(keepRanges, k) + i < destLength}}

\* C23: for segments of analyzeWaveform on the same audio, every channel of
\* the buffer trimAudio renders is the source samples of the kept windows
\* in time order, with no gap and no overlap; every destination sample is
\* written by exactly one range, and every read lies inside the source.
C23_RenderedSamplesAreKeptSamples ==
  trim.pc = "returned" =>
    LET rendered == trim.result[1].trimmedBlob
        keepRanges == KeepRanges(trim.segments)
        source == Len(audioBuffer.channelData)
    IN /\ \A c \in 1..Len(audioBuffer.channels) :
            rendered.channels[c] = KeptSamples(c, 1)
       /\ \A d \in 0..(rendered.length - 1) :
            Cardinality({k \in 1..Len(keepRanges) :
                           d \in WrittenBy(keepRanges, k, rendered.length)}) = 1
       /\ \A k \in 1..Len(keepRanges) :
            LET startSample == RangeStartSample(keepRanges[k], audioBuffer)
                reads == Cardinality(WrittenBy(keepRanges, k, rendered.length))
            IN startSample >= 0 /\ startSample + reads <= source

----------------------------------------------------------------------------
\* C24: the TrimResult reports the duration of the decoded buffer as
\* originalDuration and, for the other numbers, what calculateTrimStats
\* gives for the segment array passed in and that duration: the summed
\* length of the non-silence segments, the rest of the duration, its
\* percentage and the number of silence runs; the trimmedDuration is the
\* total duration of the keep-ranges that were rendered.
C24_ResultReportsStatsOfInput ==
  trim.pc = "returned" =>
    LET result == trim.result[1]
        duration == BufferDuration(audioBuffer)
        stats == calculateTrimStats(trim.segments, duration)
    IN /\ result.originalDuration = duration
       /\ result.trimmedDuration = stats.trimmedDuration
       /\ result.removedDuration = stats.removedDuration
       /\ result.removedPercentage = stats.removedPercentage
       /\ result.removedSegments = stats.removedSegments
       /\ result.trimmedDuration = SumDurations(trim.segments, TrimSpeech)
       /\ result.removedDuration = duration - result.trimmedDuration
       /\ result.removedSegments = Cardinality(SilenceRuns(trim.segments))
       /\ result.trimmedDuration = TrimmedDuration(KeepRanges(trim.segments))

\* C24 witness: two keep-ranges and two silence runs, and a rendered buffer
\* one sample longer than the reported trimmedDuration.
C24_Witness ==
  /\ trim.pc = "returned"
  /\ Len(KeepRanges(trim.segments)) = 2
  /\ trim.result[1].removedSegments = 2
  /\ trim.result[1].trimmedBlob.length * 1000
       > trim.result[1].trimmedDuration * audioBuffer.sampleRate

----------------------------------------------------------------------------
\* The array `out` has the length of `in` and, segment by segment, its
\* startTime, endTime and avgDb: it differs at most in isSilence.
SameButIsSilence(out, in) ==
  /\ Len(out) = Len(in)
  /\ \A j \in 1..Len(in) :
       [out[j] EXCEPT !.isSilence = in[j].isSilence] = in[j]

\* The outputs of calculateSilenceSegments and applyMargin against their
\* inputs.
OutputsDifferInIsSilenceOnly ==
  /\ "calculateSilenceSegments" \in returned =>
       SameButIsSilence(silenceResult, waveformData.segments)
  /\ "applyMargin" \in returned =>
       SameButIsSilence(marginResult, silenceResult)

\* A call leaves what it was given as it was: the WaveformData, and the
\* array returned by calculateSilenceSegments once applyMargin and
\* calculateTrimStats are given it.
InputsUnchanged ==
  /\ waveformData' = waveformData
  /\ "calculateSilenceSegments" \in returned => silenceResult' = silenceResult

\* C25: calculateAutoThreshold, calculateSilenceSegments, applyMargin,
\* calculateTrimRanges and calculateTrimStats leave their input segment
\* array unchanged (length, order, startTime, endTime, avgDb, isSilence),
\* and the outputs of calculateSilenceSegments and applyMargin differ from
\* their input only in isSilence.
C25_InputsReadOnly ==
  []OutputsDifferInIsSilenceOnly /\ [][InputsUnchanged]_vars

\* C25 witness: all five methods have returned, and both
\* calculateSilenceSegments and applyMargin returned flags other than
\* those of their input.
C25_Witness ==
  /\ returned = {"calculateAutoThreshold", "calculateSilenceSegments",
                 "applyMargin", "calculateTrimRanges", "calculateTrimStats"}
  /\ silenceResult # waveformData.segments
  /\ marginResult # silenceResult

----------------------------------------------------------------------------
\* The orders in which the elements of S can be visited.
RECURSIVE Orders(_)
Orders(S) ==
  IF S = {} THEN {<<>>}
  ELSE UNION {{<<x>> \o order : order \in Orders(S \ {x})} : x \in S}

\* The writes of applyMargin for the speech segments of `segments` visited
\* in `order` from position k on, the look-forward loop run before the
\* look-back loop when forwardFirst.
RECURSIVE MarginInOrder(_, _, _, _, _, _)
MarginInOrder(segments, result, order, k, forwardFirst, marginSegments) ==
  IF k > Len(order) THEN result
  ELSE
    LET i == order[k]
        window == MarginWindow(i, marginSegments, Len(result))
        back == {j \in window : j < i}
        forward == {j \in window : j > i}
        written == IF forwardFirst
                     THEN ClearSilence(ClearSilence(result, forward), back)
                     ELSE ClearSilence(ClearSilence(result, back), forward)
    IN MarginInOrder(segments, written, order, k + 1, forwardFirst,
                     marginSegments)

\* C26: applyMargin returns the same array whatever the order in which the
\* speech segments are visited and whichever of look-back and look-forward
\* runs first; a silence segment within marginSegments of a speech segment
\* on each side is non-silence in the result; and no non-silence segment
\* of the input is silence in the result.
C26_MarginOrderIndependent ==
  "applyMargin" \in returned =>
    LET segments == silenceResult
        speech == {i \in 1..Len(segments) : ~segments[i].isSilence}
    IN /\ \A order \in Orders(speech) : \A forwardFirst \in BOOLEAN :
            marginResult = MarginInOrder(segments, segments, order, 1,
                                         forwardFirst, MarginSegs)
       /\ \A j \in 1..Len(segments) :
            (/\ segments[j].isSilence
             /\ \E i \in speech : i < j /\ j - i <= MarginSegs
             /\ \E i \in speech : i > j /\ i - j <= MarginSegs)
              => ~marginResult[j].isSilence
       /\ \A j \in speech : ~marginResult[j].isSilence

\* C26 witness: a silence segment within the margin of one speech segment
\* before it and another after it, and a silence segment out of reach.
C26_Witness ==
  /\ "applyMargin" \in returned
  /\ MarginSegs >= 1
  /\ \E j \in 1..Len(silenceResult) :
       /\ silenceResult[j].isSilence
       /\ \E i \in 1..(j - 1) : ~silenceResult[i].isSilence /\ j - i <= MarginSegs
       /\ \E i \in (j + 1)..Len(silenceResult) :
            ~silenceResult[i].isSilence /\ i - j <= MarginSegs
  /\ \E j \in 1..Len(marginResult) : marginResult[j].isSilence

----------------------------------------------------------------------------
\* C27: two trimmers, whatever resolution each was constructed with, return
\* the same arrays from calculateSilenceSegments and from
\* calculateTrimRanges for the same WaveformData and TrimConfig.
C27_ResultIndependentOfTrimmer ==
  againResult.input = "otherTrimmer" =>
    /\ "calculateSilenceSegments" \in returned =>
         againResult.segments = silenceResult
    /\ "calculateTrimRanges" \in returned =>
         againResult.ranges = rangesResult

----------------------------------------------------------------------------
\* C28: every segment marked silence by calculateTrimRanges has avgDb <=
\* thresholdDb or avgDb = -Infinity, and is marked silence by
\* calculateSilenceSegments for the same input too, which in turn marks
\* only such quiet segments: the silence set only shrinks from the
\* threshold marking to the hysteresis to the margin.
C28_LoudAudioIsKept ==
  /\ "calculateTrimRanges" \in returned =>
       \A j \in 1..NumSegs :
         rangesResult[j].isSilence =>
           /\ Quiet(j)
           /\ "calculateSilenceSegments" \in returned => silenceResult[j].isSilence
  /\ "calculateSilenceSegments" \in returned =>
       \A j \in 1..NumSegs : silenceResult[j].isSilence => Quiet(j)

\* C28 witness: the silence set shrinks at both steps and is not empty at
\* the end.
C28_Witness ==
  /\ {"calculateTrimRanges", "calculateSilenceSegments"} \subseteq returned
  /\ \E j \in 1..NumSegs : Quiet(j) /\ ~silenceResult[j].isSilence
  /\ \E j \in 1..NumSegs : silenceResult[j].isSilence /\ ~rangesResult[j].isSilence
  /\ \E j \in 1..NumSegs : rangesResult[j].isSilence

----------------------------------------------------------------------------
\* C29: for every resolution above 0 and every decoded audio the loop of
\* analyzeWaveform ends with finitely many segments, also when the window
\* is 0 samples: every pass moves i forward, so there is never more than
\* one segment per sample of the audio.
C29_SegmentationTerminates ==
  analyze.pc \in {"loop", "finally", "returned"} =>
    Len(analyze.segments) <= Len(audioBuffer.channelData)

----------------------------------------------------------------------------
\* A step of the modal and the array a trimAudio in flight reads after its
\* decode: Send hands over the array that is current at the press, and no
\* step taken while trimAudio is awaited changes it.
TrimArgIsArrayOfPress ==
  /\ (modal.awaiting # "trimAudio" /\ modal'.awaiting = "trimAudio") =>
       (modal'.trimArg = modal.trimmedSegments /\ modal'.trimArg # <<>>)
  /\ (modal.awaiting = "trimAudio" /\ modal'.awaiting = "trimAudio") =>
       modal'.trimArg = modal.trimArg

\* C30: a threshold adjustment that arrives while trimAudio is in flight
\* does not change the segments that call renders: they are the array that
\* was current when Send was pressed, since each recalculation assigns a
\* fresh array to this.trimmedSegments.
C30_InFlightSegmentsFixed == [][TrimArgIsArrayOfPress]_vars

\* C30 witness: trimAudio is in flight and the slider has since produced
\* an array other than the one handed over.
C30_Witness ==
  /\ modal.awaiting = "trimAudio"
  /\ modal.trimArg # <<>>
  /\ modal.trimmedSegments # modal.trimArg

====
